---- MODULE Spec2Model ----
(***************************************************************************)
(* Model of the hypercraft supervisor core:                                *)
(*   - ServiceManager: manifest store, policy gate, process registry,      *)
(*     pidfile, lifecycle operations (status/start/shutdown/kill/stop/     *)
(*     restart), the post-spawn waiter and delete_service;                 *)
(*   - UserManager: user records and the token engine (login, refresh,     *)
(*     verify_token, update_user, change_password, service permissions).   *)
(* Every filesystem call and every registry-lock section of the Rust code  *)
(* is one atomic step of a task; tasks interleave freely, as they do on    *)
(* the multi-threaded runtime.                                             *)
(***************************************************************************)
EXTENDS Integers, Sequences, FiniteSets, TLC

\* ------------------------------------------------------------------------
\* Bounds
\* ------------------------------------------------------------------------

\* number of processes that may be spawned in one behaviour
MaxPid == 2

\* number of API calls that may be made in one behaviour
MaxCalls == 3

\* number of user-store and token-engine calls in one behaviour
MaxUserCalls == 4

\* scheduler calls made in one behaviour
MaxSchedCalls == 3

\* the clock stops here
MaxClock == 2

\* chunks the PTY of one instance produces
MaxChunks == 3

\* capacity of the output broadcast channel (200 in lifecycle.rs 89)
ChannelCap == 1

\* RateLimiter.limit and RateLimiter.window (10 and 60 s in main.rs 193)
RateLimit == 2

RateWindow == 2

\* allow calls made on the limiter
MaxRateCalls == 4

\* the wait of stop_all_services (5 s in lifecycle.rs 283), in clock ticks
StopAllTimeout == 1

\* user ids (uuids) create_user can draw
MaxUuid == 3

\* create_user calls made on the user directory
MaxDirCalls == 3

\* ------------------------------------------------------------------------
\* Values
\* ------------------------------------------------------------------------

NoVal == "none"

\* service ids are character sequences; validate_id looks at every character
ValidIdChars == {"s", "1", "2", "-", "_", "."}

NoId == <<>>

SvcA == <<"s", "1">>

SvcB == <<"s", "2">>

BadId == <<"s", "/">>

\* ids that can name a directory under <data>/services
Ids == {SvcA}

\* ids the lifecycle operations are called with
LifecycleIds == {SvcA}

\* commands are paths (sequences of components)
CmdAllowed == <<"opt", "allowed.exe">>

CmdBlocked == <<"opt", "blocked.exe">>

Commands == {CmdAllowed, CmdBlocked}

\* ServiceManager.allowed_commands = Some({"allowed.exe"})
allowed_commands == {"allowed.exe"}

Pids == 1..MaxPid

\* pid of a process a previous supervisor spawned; this one knows it from
\* the pidfile only
AdoptedPid == MaxPid + 1

AllPids == Pids \cup {AdoptedPid}

\* API callers (HTTP handlers, scheduler jobs)
ApiTasks == {<<"api", "a">>, <<"api", "b">>}

\* the post-spawn waiter task of instance p
Waiter(p) == <<"wait", p>>

Tasks == ApiTasks \cup {Waiter(p) : p \in Pids}

NoTask == <<>>

\* ServiceManager.data_dir
data_dir == <<"data">>

\* ServiceManifest.cwd = None
NoCwd == <<>>

\* working directories a manifest may name: one under data_dir, one under
\* /srv, and one that does not exist
CwdData == <<"data", "work">>

CwdElsewhere == <<"srv", "work">>

CwdMissing == <<"data", "gone">>

Cwds == {CwdData, CwdElsewhere, CwdMissing}

\* the directories that exist (Path::exists, canonicalize)
ExistingDirs == {CwdData, CwdElsewhere}

\* the configurations of HC_ALLOWED_CWD_PREFIXES: none (the default), the
\* wildcard, one root
CwdPolicies == {{}, {<<"*">>}, {<<"srv">>}}

\* Option values: None is <<>>, Some(x) is <<x>>
None == <<>>

Some(x) == <<x>>

\* ---- scheduler ----

\* ScheduleAction
ScheduleActions == {"Start", "Restart", "Stop"}

\* cron expressions: the empty one, one that does not parse, one that does
CronEmpty == <<>>

CronBad == <<"every", "day">>

CronHourly == <<"0", "0", "*", "*", "*", "*">>

Crons == {CronEmpty, CronBad, CronHourly}

\* the fields a cron expression may hold (seconds, minutes, hours: numbers
\* or the wildcard)
CronFields == {"0", "*"}

\* Schedule
Schedules == [enabled : BOOLEAN, cron : Crons, action : ScheduleActions]

NoSchedule == [enabled |-> FALSE, cron |-> CronEmpty, action |-> "Start"]

\* ---- rate limiter ----

\* keys of the limiter (client addresses)
RateKeys == {"k1", "k2"}

\* requests running at once
RateTasks == {"r1", "r2"}

IdleRateTask == [pc |-> "idle", key |-> NoVal, now |-> 0, res |-> NoVal]

\* ---- manifests ----

\* the instants of the clock
Times == 0..MaxClock

\* ids of service groups
GroupOne == <<"g", "1">>

GroupTwo == <<"g", "2">>

GroupIds == {GroupOne, GroupTwo}

\* ServiceManifest, the fields the supervisor reads or rewrites
ManifestInputs ==
  [id : {SvcA, SvcB, BadId},
   command : Commands,
   shutdown_command : {NoVal, "stop"},
   auto_restart : BOOLEAN,
   cwd : {NoCwd} \cup Cwds,
   schedule : {None} \cup {Some(sch) : sch \in Schedules},
   group : {None} \cup {Some(g) : g \in GroupIds},
   created_at : {None} \cup {Some(c) : c \in Times},
   clear_log_on_start : BOOLEAN]

\* manifests passed to create_service: no cwd, no schedule, no group and
\* no created_at
CreateInputs ==
  [id : Ids \cup {BadId},
   command : Commands,
   shutdown_command : {NoVal, "stop"},
   auto_restart : BOOLEAN,
   cwd : {NoCwd},
   schedule : {None},
   group : {None},
   created_at : {None},
   clear_log_on_start : {TRUE}]

\* manifests passed to update_service, under a path id that may be invalid
UpdateInputs ==
  [id : {SvcA, SvcB},
   command : Commands,
   shutdown_command : {NoVal, "stop"},
   auto_restart : BOOLEAN,
   cwd : {NoCwd},
   schedule : {None},
   group : {None},
   created_at : {None},
   clear_log_on_start : {TRUE}]

\* stands for "no service.json"
NoManifest ==
  [id |-> NoId, command |-> <<>>, shutdown_command |-> NoVal,
   auto_restart |-> FALSE, cwd |-> NoCwd, schedule |-> None,
   group |-> None, created_at |-> None, clear_log_on_start |-> FALSE]

\* callers of the scheduler (HTTP handlers, reload_all)
SchedTasks == {"p", "q"}

\* no timer asked for
NoRequest == [ok |-> FALSE, failed |-> FALSE]

IdleSchedTask ==
  [pc |-> "idle", op |-> NoVal, id |-> NoId, schedule |-> NoSchedule,
   job |-> 0, res |-> NoVal, listed |-> {}]

\* ---- user store ----

\* the one account of the model: create_user gives "alice" the id "u1"
UserIds == {"u1"}

Usernames == {"alice", "bob"}

UserIdOf(username) == IF username = "alice" THEN "u1" ELSE "u2"

\* passwords are character sequences; validate_password_strength reads them
PwOne == <<"P", "a", "s", "s", "w", "0", "r", "d">>

PwWeak == <<"p", "a", "s", "s", "w", "o", "r", "d">>

Passwords == {PwOne, PwWeak}

UpperChars == {"P"}

LowerChars == {"a", "s", "w", "r", "d", "p", "o"}

DigitChars == {"0"}

\* service_ids lists
PermLists == {<<>>, <<SvcA>>}

\* auth handlers running at once
UserTasks == {"x", "y"}

NoUser ==
  [password_hash |-> <<>>, service_ids |-> <<>>, token_version |-> 0,
   refresh_nonce |-> 0]

NoToken ==
  [sub |-> NoVal, token_type |-> NoVal, service_ids |-> <<>>,
   token_version |-> 0, refresh_nonce |-> 0]

\* a token nobody signed
ForgedToken ==
  [sub |-> "u1", token_type |-> "dev", service_ids |-> <<SvcA>>,
   token_version |-> 0, refresh_nonce |-> 0]

\* a dev token that carries a valid signature: jwt_secret is configuration,
\* whoever holds it can sign any claims
SignedDevToken ==
  [sub |-> "u1", token_type |-> "dev", service_ids |-> <<>>,
   token_version |-> 0, refresh_nonce |-> 0]

\* tokens signed with jwt_secret outside the token engine
SignedOutside == {SignedDevToken}

\* create_user calls running at once
DirTasks == {"c1", "c2"}

\* uuids of user files; 0 in the index stands for no entry
Uuids == 1..MaxUuid

IdleDirTask ==
  [pc |-> "idle", username |-> NoVal, id |-> 0,
   index |-> [n \in Usernames |-> 0], res |-> NoVal]

VARIABLES
  manifests,   \* id -> contents of <data>/services/<id>/service.json
  dirs,        \* ids whose directory <data>/services/<id> exists
  pidfile,     \* id -> pid written in runtime/pid, 0 when the file is absent
  runtime,     \* id -> pid of the RuntimeHandles entry, 0 when absent
  lockHolder,  \* task holding the registry mutex across steps, or NoTask
  stopReq,     \* pids whose stop_requested flag is true
  sentCmd,     \* pids whose PTY input received the shutdown command
  allowed_cwd_roots,  \* ServiceManager.allowed_cwd_roots
  alive,       \* pids of live processes
  owner,       \* pid -> [id, command] of the spawn
  nextPid,     \* pid the next spawn gets
  tasks,       \* task -> its position and locals
  calls,       \* number of API calls made so far
  callers,     \* the API tasks that issue calls in this behaviour
  users,       \* user id -> contents of <data>/users/<id>.json
  issued,      \* claims of the tokens signed so far
  nextNonce,   \* the next fresh refresh_nonce
  utasks,      \* auth task -> its position and locals
  refreshed,   \* refresh tokens for which refresh returned Ok
  ucalls,      \* number of user-store calls made so far
  scheduler,   \* ServiceScheduler.scheduler is Some (the JobScheduler runs)
  jobs,        \* ServiceScheduler.jobs: id -> job uuid, 0 when absent
  timers,      \* the jobs the JobScheduler holds: [uuid, sid, action]
  nextJob,     \* the uuid the next Job gets
  stasks,      \* scheduler caller -> its position and locals
  scalls,      \* number of scheduler calls made so far
  lastUpsert,  \* id -> what the calls so far asked for: ok, the last call
               \* that returned Ok asked for a timer; failed, an upsert
               \* has returned an error since
  groups,      \* contents of <data>/groups.json: a list of [id, order]
  clock,       \* the time Utc::now() and Instant::now() return
  worker,      \* the output worker: its position and the chunk it holds
  sent,        \* the chunks sent on the broadcast channel so far
  logfile,     \* the chunks appended to logs/latest.log so far
  rx,          \* the stream of follow_logs_raw: its receiver and what it
               \* has yielded
  buckets,     \* RateLimiter.buckets: key -> timestamps, <<>> when absent
  rtasks,      \* limiter caller -> its position and locals
  admitted,    \* key -> the arrival times of the calls that returned true
  rcalls,      \* number of allow calls made so far
  userFiles,   \* uuid -> username of <data>/users/<uuid>.json, or none
  usernameIndex, \* <data>/users/index.json: username -> uuid, 0 if absent
  ctasks,      \* create_user caller -> its position and locals
  nextUuid,    \* the next uuid Uuid::new_v4 yields
  ccalls,      \* number of create_user calls made so far
  logBytes,    \* the bytes of logs/latest.log of the service
  session      \* the attach session: its position, the point of the
               \* channel it subscribed at, and the replay frame it sent

\* the state of the supervisor
svcVars == <<manifests, dirs, pidfile, runtime, lockHolder, stopReq, sentCmd,
             allowed_cwd_roots, alive, owner, nextPid, tasks, calls,
             callers>>

\* the state of the user store and token engine
usrVars == <<users, issued, nextNonce, utasks, refreshed, ucalls>>

\* the state of the scheduler
schVars == <<scheduler, jobs, timers, nextJob, stasks, scalls, lastUpsert>>

\* the group list and the clock
stoVars == <<groups, clock>>

\* the output fan-out of one instance
logVars == <<worker, sent, logfile, rx>>

\* the rate limiter
rlVars == <<buckets, rtasks, admitted, rcalls>>

\* the user directory as create_user and find_by_username see it
dirVars == <<userFiles, usernameIndex, ctasks, nextUuid, ccalls>>

\* the log file as the output worker writes and truncates it, and the
\* attach session
fileVars == <<logBytes, session>>

\* the state outside the supervisor, the user store and the scheduler
extVars == <<stoVars, logVars, rlVars, dirVars, fileVars>>

vars == <<manifests, dirs, pidfile, runtime, lockHolder, stopReq, sentCmd,
          allowed_cwd_roots, alive, owner, nextPid, tasks, calls, callers,
          users, issued, nextNonce, utasks, refreshed, ucalls, scheduler,
          jobs, timers, nextJob, stasks, scalls, lastUpsert, groups, clock,
          worker, sent, logfile, rx, buckets, rtasks, admitted, rcalls,
          userFiles, usernameIndex, ctasks, nextUuid, ccalls, logBytes,
          session>>

\* ------------------------------------------------------------------------
\* Pure helpers
\* ------------------------------------------------------------------------

\* ServiceManager::validate_id
validate_id(id) ==
  /\ id # <<>>
  /\ \A i \in 1..Len(id) : id[i] \in ValidIdChars

\* Path::file_name of the command
Basename(cmd) == cmd[Len(cmd)]

\* a policy gate that lets every command through
enforce_policy_open(m) == "Ok"

\* Path::starts_with
starts_with(path, base) ==
  /\ Len(base) <= Len(path)
  /\ \A i \in 1..Len(base) : path[i] = base[i]

\* ServiceManager::enforce_policy: the command whitelist, then the cwd
\* whitelist ("*" lifts it; canonicalize fails on a missing directory)
enforce_policy(m) ==
  IF Basename(m.command) \notin allowed_commands THEN "PolicyViolation"
  ELSE IF m.cwd = NoCwd THEN "Ok"
  ELSE IF <<"*">> \in allowed_cwd_roots THEN "Ok"
  ELSE IF m.cwd \notin ExistingDirs THEN "PolicyViolation"
  ELSE IF starts_with(m.cwd, data_dir) THEN "Ok"
  ELSE IF \E root \in allowed_cwd_roots : starts_with(m.cwd, root) THEN "Ok"
  ELSE "PolicyViolation"

\* ServiceManager::process_alive
process_alive(pid) == pid \in alive

NoOwner == [id |-> NoId, command |-> <<>>]

IdleTask ==
  [pc |-> "idle", op |-> NoVal, id |-> NoId, st |-> NoVal, pid |-> 0,
   flag |-> 0, ret |-> NoVal, m |-> NoManifest, res |-> NoVal,
   arg |-> None, todo |-> {}, running |-> {}, reported |-> {},
   stops |-> {}, stopped |-> {}, phase |-> NoVal, since |-> 0]

OffTask == [IdleTask EXCEPT !.pc = "off"]

\* pids for which start returned Ok: exactly those that got a waiter
startedOk == {p \in Pids : tasks[Waiter(p)].pc # "off"}

\* what a status(id) call that runs to completion now would answer
StatusOf(id) ==
  IF lockHolder # NoTask THEN "Hang"
  ELSE IF runtime[id] # 0
       THEN IF process_alive(runtime[id]) THEN "Running" ELSE "Hang"
       ELSE IF pidfile[id] # 0 /\ process_alive(pidfile[id])
            THEN "Running" ELSE "Stopped"

IdleUserTask ==
  [pc |-> "idle", op |-> NoVal, id |-> NoVal, tok |-> NoToken,
   password |-> None, sids |-> None,
   svc |-> NoId, loaded |-> NoUser, user |-> NoUser, rotate |-> FALSE,
   late |-> FALSE, steps |-> <<>>, res |-> NoVal]

\* ------------------------------------------------------------------------
\* Initial state: a fresh data directory, an empty registry
\* ------------------------------------------------------------------------

ServiceInit ==
  /\ allowed_cwd_roots = {}
  /\ manifests = [i \in Ids |-> NoManifest]
  /\ dirs = {}
  /\ pidfile = [i \in Ids |-> 0]
  /\ runtime = [i \in Ids |-> 0]
  /\ lockHolder = NoTask
  /\ stopReq = {}
  /\ sentCmd = {}
  /\ alive = {}
  /\ owner = [p \in AllPids |-> NoOwner]
  /\ nextPid = 1
  /\ tasks = [t \in Tasks |-> IF t \in ApiTasks THEN IdleTask ELSE OffTask]
  /\ calls = 0
  /\ callers = {<<"api", "a">>}

UserInit ==
  /\ users = [u \in UserIds |-> NoUser]
  /\ issued = {}
  /\ nextNonce = 1
  /\ utasks = [t \in UserTasks |-> IdleUserTask]
  /\ refreshed = {}
  /\ ucalls = 0

SchedulerInit ==
  /\ scheduler = FALSE
  /\ jobs = [i \in Ids |-> 0]
  /\ timers = {}
  /\ nextJob = 1
  /\ stasks = [t \in SchedTasks |-> IdleSchedTask]
  /\ scalls = 0
  /\ lastUpsert = [i \in Ids |-> NoRequest]

\* no groups.json yet
StoreInit ==
  /\ groups = <<>>
  /\ clock = 0

\* no stream is open
NoStream == [open |-> FALSE, next |-> 0, since |-> 0, got |-> <<>>]

\* no instance has been spawned: no output worker, no channel
LogInit ==
  /\ worker = [pc |-> "off", cur |-> 0, read |-> 0]
  /\ sent = <<>>
  /\ logfile = <<>>
  /\ rx = NoStream

\* RateLimiter::new
RateInit ==
  /\ buckets = [k \in RateKeys |-> <<>>]
  /\ rtasks = [t \in RateTasks |-> IdleRateTask]
  /\ admitted = [k \in RateKeys |-> <<>>]
  /\ rcalls = 0

\* an empty <data>/users
DirInit ==
  /\ userFiles = [u \in Uuids |-> NoVal]
  /\ usernameIndex = [n \in Usernames |-> 0]
  /\ ctasks = [t \in DirTasks |-> IdleDirTask]
  /\ nextUuid = 1
  /\ ccalls = 0

\* the bytes a process writes, the line feed among them
Newline == "\n"
Bytes == {"a", "b", Newline}

\* no attach session is open
NoSession == [pc |-> "none", since |-> 0, replay |-> <<>>]

FileInit ==
  /\ logBytes = <<>>
  /\ session = NoSession

ExtInit == StoreInit /\ LogInit /\ RateInit /\ DirInit /\ FileInit

Init == ServiceInit /\ UserInit /\ SchedulerInit /\ ExtInit

\* ------------------------------------------------------------------------
\* Task plumbing
\* ------------------------------------------------------------------------

SetTask(t, rec) == tasks' = [tasks EXCEPT ![t] = rec]

\* the operation of task t ends with result r; its locals are dropped
Finished(t, r) ==
  [IdleTask EXCEPT !.pc = IF t \in ApiTasks THEN "done" ELSE "w_done",
                   !.op = tasks[t].op, !.id = tasks[t].id, !.res = r]

\* stop (shutdown or kill) ends with result r; restart goes on to start
\* when the stop succeeded ("self.stop(id).await?; self.start(id).await")
FinishedStop(t, r) ==
  IF tasks[t].op = "restart" /\ r \in {"Ok_Running", "Ok_Stopped"}
  THEN [tasks[t] EXCEPT !.pc = "start_load"]
  ELSE IF tasks[t].op = "stop_all_services"
  THEN [tasks[t] EXCEPT !.pc = "sa_stop"]
  ELSE Finished(t, r)

\* the caller reads the result and the task is free again
Return(t) ==
  /\ tasks[t].pc = "done"
  /\ SetTask(t, IdleTask)
  /\ UNCHANGED <<manifests, dirs, pidfile, runtime, lockHolder, stopReq,
                 sentCmd, alive, owner, nextPid, calls, callers,
                 allowed_cwd_roots, usrVars, schVars, extVars>>

\* a caller invokes a lifecycle operation
Call(t, op, id) ==
  /\ t \in callers
  /\ tasks[t].pc = "idle"
  /\ calls < MaxCalls
  /\ calls' = calls + 1
  /\ SetTask(t, [IdleTask EXCEPT
       !.op = op, !.id = id,
       !.pc = CASE op = "start" -> "start_load"
                [] op = "shutdown" -> "shut_load"
                [] op = "kill" -> "kill_get"
                [] op = "stop" -> "stop_load"
                [] op \in {"restart", "status", "delete_service", "attach"}
                     -> "st_reg",
       !.ret = CASE op = "restart" -> "restart_chk"
                 [] op = "status" -> "status_ret"
                 [] op = "delete_service" -> "delete_chk"
                 [] op = "attach" -> "attach_chk"
                 [] OTHER -> NoVal])
  /\ UNCHANGED <<manifests, dirs, pidfile, runtime, lockHolder, stopReq,
                 sentCmd, alive, owner, nextPid, callers, allowed_cwd_roots,
                 usrVars, schVars, extVars>>

\* ------------------------------------------------------------------------
\* status(id), run as a subroutine: tasks[t].ret is where the caller goes on
\* ------------------------------------------------------------------------

StatusDone(t, st, pid) ==
  IF tasks[t].ret = "status_ret"
  THEN Finished(t, IF st = "Running" THEN "Ok_Running" ELSE "Ok_Stopped")
  ELSE [tasks[t] EXCEPT !.pc = tasks[t].ret, !.st = st, !.pid = pid]

\* lifecycle.rs 25-37: the guard of the lookup lives to the end of the
\* `if let`; with a live pid the call returns Running, with a dead pid it
\* goes on to `self.runtime.lock().await` while still holding the guard and
\* never gets past it (pc "st_relock" has no step)
StatusRegistry(t) ==
  /\ tasks[t].pc = "st_reg"
  /\ lockHolder = NoTask
  /\ LET rp == runtime[tasks[t].id] IN
       IF rp # 0
       THEN IF process_alive(rp)
            THEN /\ SetTask(t, StatusDone(t, "Running", rp))
                 /\ UNCHANGED lockHolder
            ELSE /\ SetTask(t, [tasks[t] EXCEPT !.pc = "st_relock"])
                 /\ lockHolder' = t
       ELSE /\ SetTask(t, [tasks[t] EXCEPT !.pc = "st_pid"])
            /\ UNCHANGED lockHolder
  /\ UNCHANGED <<manifests, dirs, pidfile, runtime, stopReq, sentCmd, alive,
                 owner, nextPid, calls, callers, allowed_cwd_roots, usrVars,
                 schVars, extVars>>

\* lifecycle.rs 38-48 and 52-56: read_pid, process_alive
StatusPidfile(t) ==
  /\ tasks[t].pc = "st_pid"
  /\ LET p == pidfile[tasks[t].id] IN
       IF p = 0 THEN SetTask(t, StatusDone(t, "Stopped", 0))
       ELSE IF process_alive(p) THEN SetTask(t, StatusDone(t, "Running", p))
       ELSE SetTask(t, [tasks[t] EXCEPT !.pc = "st_stale"])
  /\ UNCHANGED <<manifests, dirs, pidfile, runtime, lockHolder, stopReq,
                 sentCmd, alive, owner, nextPid, calls, callers,
                 allowed_cwd_roots, usrVars, schVars, extVars>>

\* lifecycle.rs 50: the stale pidfile is removed
StatusStale(t) ==
  /\ tasks[t].pc = "st_stale"
  /\ pidfile' = [pidfile EXCEPT ![tasks[t].id] = 0]
  /\ SetTask(t, StatusDone(t, "Stopped", 0))
  /\ UNCHANGED <<manifests, dirs, runtime, lockHolder, stopReq, sentCmd,
                 alive, owner, nextPid, calls, callers, allowed_cwd_roots,
                 usrVars, schVars, extVars>>

\* ------------------------------------------------------------------------
\* start(id)
\* ------------------------------------------------------------------------

\* lifecycle.rs 62-63: load_manifest, then status
StartLoad(t) ==
  /\ tasks[t].pc = "start_load"
  /\ LET id == tasks[t].id IN
       IF manifests[id] = NoManifest
       THEN SetTask(t, Finished(t, "NotFound"))
       ELSE SetTask(t, [tasks[t] EXCEPT !.m = manifests[id], !.pc = "st_reg",
                                        !.ret = "start_chk"])
  /\ UNCHANGED <<manifests, dirs, pidfile, runtime, lockHolder, stopReq,
                 sentCmd, alive, owner, nextPid, calls, callers,
                 allowed_cwd_roots, usrVars, schVars, extVars>>

\* lifecycle.rs 64-87: AlreadyRunning, create_dir_all, the log emptied
\* with clear_log_on_start, enforce_policy, the existence check of the cwd,
\* spawn
StartSpawn(t) ==
  /\ tasks[t].pc = "start_chk"
  /\ logBytes' = IF tasks[t].st # "Running" /\ tasks[t].m.clear_log_on_start
                 THEN <<>> ELSE logBytes
  /\ LET id == tasks[t].id
         m == tasks[t].m
     IN IF tasks[t].st = "Running"
        THEN /\ SetTask(t, Finished(t, "AlreadyRunning"))
             /\ UNCHANGED <<dirs, alive, owner, nextPid>>
        ELSE IF enforce_policy(m) # "Ok"
        THEN /\ dirs' = dirs \cup {id}
             /\ SetTask(t, Finished(t, "PolicyViolation"))
             /\ UNCHANGED <<alive, owner, nextPid>>
        ELSE IF m.cwd # NoCwd /\ m.cwd \notin ExistingDirs
        THEN /\ dirs' = dirs \cup {id}
             /\ SetTask(t, Finished(t, "SpawnFailed"))
             /\ UNCHANGED <<alive, owner, nextPid>>
        ELSE /\ nextPid <= MaxPid
             /\ dirs' = dirs \cup {id}
             /\ \E spawned \in BOOLEAN :
                  IF spawned
                  THEN /\ alive' = alive \cup {nextPid}
                       /\ owner' = [owner EXCEPT ![nextPid] =
                                      [id |-> id, command |-> m.command]]
                       /\ nextPid' = nextPid + 1
                       /\ SetTask(t, [tasks[t] EXCEPT !.pid = nextPid,
                                                      !.pc = "start_ins"])
                  ELSE /\ SetTask(t, Finished(t, "SpawnFailed"))
                       /\ UNCHANGED <<alive, owner, nextPid>>
  /\ UNCHANGED <<manifests, pidfile, runtime, lockHolder, stopReq, sentCmd,
                 calls, callers, allowed_cwd_roots, usrVars, schVars,
                 stoVars, logVars, rlVars, dirVars, session>>

\* lifecycle.rs 98-111: the handle goes into the registry
StartInsert(t) ==
  /\ tasks[t].pc = "start_ins"
  /\ lockHolder = NoTask
  /\ runtime' = [runtime EXCEPT ![tasks[t].id] = tasks[t].pid]
  /\ SetTask(t, [tasks[t] EXCEPT !.pc = "start_wpid"])
  /\ UNCHANGED <<manifests, dirs, pidfile, lockHolder, stopReq, sentCmd,
                 alive, owner, nextPid, calls, callers, allowed_cwd_roots,
                 usrVars, schVars, extVars>>

\* lifecycle.rs 113: write_pid
StartWritePid(t) ==
  /\ tasks[t].pc = "start_wpid"
  /\ pidfile' = [pidfile EXCEPT ![tasks[t].id] = tasks[t].pid]
  /\ dirs' = dirs \cup {tasks[t].id}
  /\ SetTask(t, [tasks[t] EXCEPT !.pc = "start_settle"])
  /\ UNCHANGED <<manifests, runtime, lockHolder, stopReq, sentCmd, alive,
                 owner, nextPid, calls, callers, allowed_cwd_roots, usrVars,
                 schVars, extVars>>

\* lifecycle.rs 116-118 and 135-147: after the settle sleep, try_wait; an
\* exited child starts the cleanup, a live one gets its waiter
\* (spawn_wait_handler) and start returns Ok
StartSettle(t) ==
  /\ tasks[t].pc = "start_settle"
  /\ LET id == tasks[t].id
         pid == tasks[t].pid
     IN IF ~process_alive(pid)
        THEN /\ pidfile' = [pidfile EXCEPT ![id] = 0]
             /\ SetTask(t, [tasks[t] EXCEPT !.pc = "start_fail"])
        ELSE /\ tasks' = [tasks EXCEPT
                  ![t] = Finished(t, "Ok_Running"),
                  ![Waiter(pid)] = [IdleTask EXCEPT !.pc = "w_wait",
                                            !.op = "wait", !.id = id,
                                            !.pid = pid, !.m = tasks[t].m]]
             /\ UNCHANGED pidfile
  /\ UNCHANGED <<manifests, dirs, runtime, lockHolder, stopReq, sentCmd,
                 alive, owner, nextPid, calls, callers, allowed_cwd_roots,
                 usrVars, schVars, extVars>>

\* lifecycle.rs 119-131: registry entry removed, SpawnFailed
StartFail(t) ==
  /\ tasks[t].pc = "start_fail"
  /\ lockHolder = NoTask
  /\ runtime' = [runtime EXCEPT ![tasks[t].id] = 0]
  /\ SetTask(t, Finished(t, "SpawnFailed"))
  /\ UNCHANGED <<manifests, dirs, pidfile, lockHolder, stopReq, sentCmd,
                 alive, owner, nextPid, calls, callers, allowed_cwd_roots,
                 usrVars, schVars, extVars>>

\* ------------------------------------------------------------------------
\* the post-spawn waiter of instance p (spawn_wait_handler)
\* ------------------------------------------------------------------------

\* lifecycle.rs 461-476: child.wait() returns, the exit line is logged
WaitExit(p) ==
  /\ tasks[Waiter(p)].pc = "w_wait"
  /\ ~process_alive(p)
  /\ SetTask(Waiter(p), [tasks[Waiter(p)] EXCEPT !.pc = "w_rmpid"])
  /\ UNCHANGED <<manifests, dirs, pidfile, runtime, lockHolder, stopReq,
                 sentCmd, alive, owner, nextPid, calls, callers,
                 allowed_cwd_roots, usrVars, schVars, extVars>>

\* lifecycle.rs 478: the pidfile of the id is removed
WaitRemovePid(p) ==
  /\ tasks[Waiter(p)].pc = "w_rmpid"
  /\ pidfile' = [pidfile EXCEPT ![tasks[Waiter(p)].id] = 0]
  /\ SetTask(Waiter(p), [tasks[Waiter(p)] EXCEPT !.pc = "w_rmreg"])
  /\ UNCHANGED <<manifests, dirs, runtime, lockHolder, stopReq, sentCmd,
                 alive, owner, nextPid, calls, callers, allowed_cwd_roots,
                 usrVars, schVars, extVars>>

\* lifecycle.rs 479-482: the registry entry of the id is removed
WaitRemoveHandle(p) ==
  /\ tasks[Waiter(p)].pc = "w_rmreg"
  /\ lockHolder = NoTask
  /\ runtime' = [runtime EXCEPT ![tasks[Waiter(p)].id] = 0]
  /\ SetTask(Waiter(p), [tasks[Waiter(p)] EXCEPT !.pc = "w_flag"])
  /\ UNCHANGED <<manifests, dirs, pidfile, lockHolder, stopReq, sentCmd,
                 alive, owner, nextPid, calls, callers, allowed_cwd_roots,
                 usrVars, schVars, extVars>>

\* lifecycle.rs 485-490 and spawn_restart: auto_restart unless stop_requested
WaitRestart(p) ==
  /\ tasks[Waiter(p)].pc = "w_flag"
  /\ IF tasks[Waiter(p)].m.auto_restart /\ p \notin stopReq
     THEN SetTask(Waiter(p), [tasks[Waiter(p)] EXCEPT !.pc = "start_load",
                                                      !.op = "start"])
     ELSE SetTask(Waiter(p), Finished(Waiter(p), "exited"))
  /\ UNCHANGED <<manifests, dirs, pidfile, runtime, lockHolder, stopReq,
                 sentCmd, alive, owner, nextPid, calls, callers,
                 allowed_cwd_roots, usrVars, schVars, extVars>>

\* ------------------------------------------------------------------------
\* shutdown(id)
\* ------------------------------------------------------------------------

\* lifecycle.rs 153-154
ShutdownLoad(t) ==
  /\ tasks[t].pc = "shut_load"
  /\ LET id == tasks[t].id IN
       IF manifests[id] = NoManifest
       THEN SetTask(t, FinishedStop(t, "NotFound"))
       ELSE SetTask(t, [tasks[t] EXCEPT !.m = manifests[id], !.pc = "st_reg",
                                        !.ret = "shut_chk"])
  /\ UNCHANGED <<manifests, dirs, pidfile, runtime, lockHolder, stopReq,
                 sentCmd, alive, owner, nextPid, calls, callers,
                 allowed_cwd_roots, usrVars, schVars, extVars>>

\* lifecycle.rs 155-157
ShutdownCheck(t) ==
  /\ tasks[t].pc = "shut_chk"
  /\ IF tasks[t].st # "Running"
     THEN SetTask(t, FinishedStop(t, "NotRunning"))
     ELSE SetTask(t, [tasks[t] EXCEPT !.pc = "shut_flag"])
  /\ UNCHANGED <<manifests, dirs, pidfile, runtime, lockHolder, stopReq,
                 sentCmd, alive, owner, nextPid, calls, callers,
                 allowed_cwd_roots, usrVars, schVars, extVars>>

\* lifecycle.rs 160-165: stop_requested of the registered handle
ShutdownFlag(t) ==
  /\ tasks[t].pc = "shut_flag"
  /\ lockHolder = NoTask
  /\ LET rp == runtime[tasks[t].id] IN
       stopReq' = IF rp # 0 THEN stopReq \cup {rp} ELSE stopReq
  /\ SetTask(t, [tasks[t] EXCEPT !.pc = "shut_send"])
  /\ UNCHANGED <<manifests, dirs, pidfile, runtime, lockHolder, sentCmd,
                 alive, owner, nextPid, calls, callers, allowed_cwd_roots,
                 usrVars, schVars, extVars>>

\* lifecycle.rs 168-182: the command is sent to the handle's input, Ok(Running)
ShutdownSend(t) ==
  /\ tasks[t].pc = "shut_send"
  /\ lockHolder = NoTask
  /\ LET rp == runtime[tasks[t].id] IN
       sentCmd' = IF rp # 0 THEN sentCmd \cup {rp} ELSE sentCmd
  /\ SetTask(t, FinishedStop(t, "Ok_Running"))
  /\ UNCHANGED <<manifests, dirs, pidfile, runtime, lockHolder, stopReq,
                 alive, owner, nextPid, calls, callers, allowed_cwd_roots,
                 usrVars, schVars, extVars>>

\* ------------------------------------------------------------------------
\* kill(id)
\* ------------------------------------------------------------------------

\* lifecycle.rs 189-200: the handle's pid and flag, else the pidfile
KillLookup(t) ==
  /\ tasks[t].pc = "kill_get"
  /\ lockHolder = NoTask
  /\ LET id == tasks[t].id
         rp == runtime[id]
         pid == IF rp # 0 THEN rp ELSE pidfile[id]
     IN IF pid = 0
        THEN SetTask(t, FinishedStop(t, "NotRunning"))
        ELSE SetTask(t, [tasks[t] EXCEPT !.pid = pid, !.flag = rp,
                                         !.pc = "kill_flag"])
  /\ UNCHANGED <<manifests, dirs, pidfile, runtime, lockHolder, stopReq,
                 sentCmd, alive, owner, nextPid, calls, callers,
                 allowed_cwd_roots, usrVars, schVars, extVars>>

\* lifecycle.rs 203-205
KillFlag(t) ==
  /\ tasks[t].pc = "kill_flag"
  /\ stopReq' = IF tasks[t].flag # 0 THEN stopReq \cup {tasks[t].flag}
                ELSE stopReq
  /\ SetTask(t, [tasks[t] EXCEPT !.pc = "kill_rm"])
  /\ UNCHANGED <<manifests, dirs, pidfile, runtime, lockHolder, sentCmd,
                 alive, owner, nextPid, calls, callers, allowed_cwd_roots,
                 usrVars, schVars, extVars>>

\* lifecycle.rs 207-210: whatever entry the id has now is removed
KillRemoveHandle(t) ==
  /\ tasks[t].pc = "kill_rm"
  /\ lockHolder = NoTask
  /\ runtime' = [runtime EXCEPT ![tasks[t].id] = 0]
  /\ SetTask(t, [tasks[t] EXCEPT !.pc = "kill_sig"])
  /\ UNCHANGED <<manifests, dirs, pidfile, lockHolder, stopReq, sentCmd,
                 alive, owner, nextPid, calls, callers, allowed_cwd_roots,
                 usrVars, schVars, extVars>>

\* lifecycle.rs 213: kill_process, whose failure is ignored
KillSignal(t) ==
  /\ tasks[t].pc = "kill_sig"
  /\ \E killed \in BOOLEAN :
       alive' = IF killed THEN alive \ {tasks[t].pid} ELSE alive
  /\ SetTask(t, [tasks[t] EXCEPT !.pc = "kill_wait"])
  /\ UNCHANGED <<manifests, dirs, pidfile, runtime, lockHolder, stopReq,
                 sentCmd, owner, nextPid, calls, callers, allowed_cwd_roots,
                 usrVars, schVars, extVars>>

\* lifecycle.rs 216-227: the pid is gone, or the ten polls are used up
KillWait(t) ==
  /\ tasks[t].pc = "kill_wait"
  /\ IF process_alive(tasks[t].pid)
     THEN SetTask(t, FinishedStop(t, "Other"))
     ELSE SetTask(t, [tasks[t] EXCEPT !.pc = "kill_rmpid"])
  /\ UNCHANGED <<manifests, dirs, pidfile, runtime, lockHolder, stopReq,
                 sentCmd, alive, owner, nextPid, calls, callers,
                 allowed_cwd_roots, usrVars, schVars, extVars>>

\* lifecycle.rs 229-235
KillRemovePid(t) ==
  /\ tasks[t].pc = "kill_rmpid"
  /\ pidfile' = [pidfile EXCEPT ![tasks[t].id] = 0]
  /\ SetTask(t, FinishedStop(t, "Ok_Stopped"))
  /\ UNCHANGED <<manifests, dirs, runtime, lockHolder, stopReq, sentCmd,
                 alive, owner, nextPid, calls, callers, allowed_cwd_roots,
                 usrVars, schVars, extVars>>

\* ------------------------------------------------------------------------
\* stop(id), restart(id)
\* ------------------------------------------------------------------------

\* lifecycle.rs 241-246
StopDispatch(t) ==
  /\ tasks[t].pc = "stop_load"
  /\ LET id == tasks[t].id IN
       IF manifests[id] = NoManifest
       THEN SetTask(t, FinishedStop(t, "NotFound"))
       ELSE IF manifests[id].shutdown_command # NoVal
       THEN SetTask(t, [tasks[t] EXCEPT !.pc = "shut_load"])
       ELSE SetTask(t, [tasks[t] EXCEPT !.pc = "kill_get"])
  /\ UNCHANGED <<manifests, dirs, pidfile, runtime, lockHolder, stopReq,
                 sentCmd, alive, owner, nextPid, calls, callers,
                 allowed_cwd_roots, usrVars, schVars, extVars>>

\* lifecycle.rs 252-256
RestartCheck(t) ==
  /\ tasks[t].pc = "restart_chk"
  /\ IF tasks[t].st = "Running"
     THEN SetTask(t, [tasks[t] EXCEPT !.pc = "stop_load"])
     ELSE SetTask(t, [tasks[t] EXCEPT !.pc = "start_load"])
  /\ UNCHANGED <<manifests, dirs, pidfile, runtime, lockHolder, stopReq,
                 sentCmd, alive, owner, nextPid, calls, callers,
                 allowed_cwd_roots, usrVars, schVars, extVars>>

\* ------------------------------------------------------------------------
\* stop_all_services and the end of main
\* ------------------------------------------------------------------------

\* the task that runs main after the server has stopped
MainTask == <<"api", "a">>

\* main.rs 224: stop_all_services is called, once
StopAllCall(t) ==
  /\ t = MainTask
  /\ tasks[t].pc = "idle"
  /\ calls = 0
  /\ calls' = 1
  /\ SetTask(t, [IdleTask EXCEPT !.op = "stop_all_services",
                                 !.pc = "ls_dir", !.phase = "first"])
  /\ UNCHANGED <<manifests, dirs, pidfile, runtime, lockHolder, stopReq,
                 sentCmd, alive, owner, nextPid, callers, allowed_cwd_roots,
                 usrVars, schVars, extVars>>

\* list_services, storage.rs 63-76: the ids that have a service.json
ListDir(t) ==
  /\ tasks[t].pc = "ls_dir"
  /\ LET stored == {i \in DOMAIN manifests : manifests[i] # NoManifest} IN
       SetTask(t, [tasks[t] EXCEPT !.todo = stored, !.running = {},
                     !.pc = IF stored = {} THEN "sa_listed" ELSE "ls_item"])
  /\ UNCHANGED <<manifests, dirs, pidfile, runtime, lockHolder, stopReq,
                 sentCmd, alive, owner, nextPid, calls, callers,
                 allowed_cwd_roots, usrVars, schVars, extVars>>

\* list_services, storage.rs 84-85: load_manifest, then status, of one id;
\* an error ends list_services and, through `?`, stop_all_services
ListItem(t, i) ==
  /\ tasks[t].pc = "ls_item"
  /\ i \in tasks[t].todo
  /\ IF manifests[i] = NoManifest
     THEN SetTask(t, Finished(t, "NotFound"))
     ELSE SetTask(t, [tasks[t] EXCEPT !.id = i, !.todo = tasks[t].todo \ {i},
                                      !.pc = "st_reg", !.ret = "ls_sum"])
  /\ UNCHANGED <<manifests, dirs, pidfile, runtime, lockHolder, stopReq,
                 sentCmd, alive, owner, nextPid, calls, callers,
                 allowed_cwd_roots, usrVars, schVars, extVars>>

\* list_services, storage.rs 86-93: the summary carries the state
ListSummary(t) ==
  /\ tasks[t].pc = "ls_sum"
  /\ SetTask(t, [tasks[t] EXCEPT
       !.running = IF tasks[t].st = "Running"
                   THEN tasks[t].running \cup {tasks[t].id}
                   ELSE tasks[t].running,
       !.pc = IF tasks[t].todo = {} THEN "sa_listed" ELSE "ls_item"])
  /\ UNCHANGED <<manifests, dirs, pidfile, runtime, lockHolder, stopReq,
                 sentCmd, alive, owner, nextPid, calls, callers,
                 allowed_cwd_roots, usrVars, schVars, extVars>>

\* lifecycle.rs 262-270 on the first listing, 286-300 on the later ones:
\* nothing Running ends the call, the first listing starts the stops, a
\* later one ends the call when the wait is used up and sleeps otherwise
StopAllListed(t) ==
  /\ tasks[t].pc = "sa_listed"
  /\ LET running == tasks[t].running IN
       IF running = {}
       THEN SetTask(t, Finished(t, "Ok"))
       ELSE IF tasks[t].phase = "first"
       THEN SetTask(t, [tasks[t] EXCEPT !.reported = running,
                          !.stops = running, !.pc = "sa_stop"])
       ELSE IF clock - tasks[t].since > StopAllTimeout
       THEN SetTask(t, Finished(t, "Ok"))
       ELSE SetTask(t, [tasks[t] EXCEPT !.pc = "sa_sleep"])
  /\ UNCHANGED <<manifests, dirs, pidfile, runtime, lockHolder, stopReq,
                 sentCmd, alive, owner, nextPid, calls, callers,
                 allowed_cwd_roots, usrVars, schVars, extVars>>

\* lifecycle.rs 274-283: stop of the next service of the list, its error
\* only logged; after the last one the wait begins
StopAllNext(t) ==
  /\ tasks[t].pc = "sa_stop"
  /\ IF tasks[t].stops = {}
     THEN SetTask(t, [tasks[t] EXCEPT !.phase = "wait", !.since = clock,
                                      !.pc = "ls_dir"])
     ELSE \E i \in tasks[t].stops :
            SetTask(t, [tasks[t] EXCEPT !.id = i,
                          !.stops = tasks[t].stops \ {i},
                          !.stopped = tasks[t].stopped \cup {i},
                          !.pc = "stop_load"])
  /\ UNCHANGED <<manifests, dirs, pidfile, runtime, lockHolder, stopReq,
                 sentCmd, alive, owner, nextPid, calls, callers,
                 allowed_cwd_roots, usrVars, schVars, extVars>>

\* lifecycle.rs 302: the sleep between two listings
StopAllSleep(t) ==
  /\ tasks[t].pc = "sa_sleep"
  /\ SetTask(t, [tasks[t] EXCEPT !.pc = "ls_dir"])
  /\ UNCHANGED <<manifests, dirs, pidfile, runtime, lockHolder, stopReq,
                 sentCmd, alive, owner, nextPid, calls, callers,
                 allowed_cwd_roots, usrVars, schVars, extVars>>

\* ------------------------------------------------------------------------
\* attach(id)
\* ------------------------------------------------------------------------

\* attach.rs 7-9: NotRunning unless status said Running
AttachCheckResult(t) ==
  IF tasks[t].st # "Running"
  THEN Finished(t, "NotRunning")
  ELSE [tasks[t] EXCEPT !.pc = "attach_get"]

AttachCheck(t) ==
  /\ tasks[t].pc = "attach_chk"
  /\ SetTask(t, AttachCheckResult(t))
  /\ UNCHANGED <<manifests, dirs, pidfile, runtime, lockHolder, stopReq,
                 sentCmd, alive, owner, nextPid, calls, callers,
                 allowed_cwd_roots, usrVars, schVars, extVars>>

\* attach.rs 10-22: the handle of the registry entry, else Other
AttachLookup(t) ==
  /\ tasks[t].pc = "attach_get"
  /\ lockHolder = NoTask
  /\ LET rp == runtime[tasks[t].id] IN
       IF rp # 0
       THEN SetTask(t, [Finished(t, "Ok_Attached") EXCEPT !.pid = rp])
       ELSE SetTask(t, Finished(t, "Other"))
  /\ UNCHANGED <<manifests, dirs, pidfile, runtime, lockHolder, stopReq,
                 sentCmd, alive, owner, nextPid, calls, callers,
                 allowed_cwd_roots, usrVars, schVars, extVars>>

\* ------------------------------------------------------------------------
\* Manifest store
\* ------------------------------------------------------------------------

\* delete_service without the AlreadyRunning check of storage.rs 120-122
DeleteServiceUnchecked(t) ==
  /\ tasks[t].pc = "delete_chk"
  /\ LET id == tasks[t].id IN
       IF id \notin dirs
       THEN /\ SetTask(t, Finished(t, "NotFound"))
            /\ UNCHANGED <<manifests, dirs, pidfile>>
       ELSE /\ dirs' = dirs \ {id}
            /\ manifests' = [manifests EXCEPT ![id] = NoManifest]
            /\ pidfile' = [pidfile EXCEPT ![id] = 0]
            /\ SetTask(t, Finished(t, "Ok"))
  /\ UNCHANGED <<runtime, lockHolder, stopReq, sentCmd, alive, owner, nextPid,
                 calls, callers, allowed_cwd_roots, usrVars, schVars, extVars>>

\* storage.rs 121-129, after the status call of line 120
DeleteService(t) ==
  /\ tasks[t].pc = "delete_chk"
  /\ LET id == tasks[t].id IN
       IF tasks[t].st = "Running"
       THEN /\ SetTask(t, Finished(t, "AlreadyRunning"))
            /\ UNCHANGED <<manifests, dirs, pidfile>>
       ELSE IF id \notin dirs
       THEN /\ SetTask(t, Finished(t, "NotFound"))
            /\ UNCHANGED <<manifests, dirs, pidfile>>
       ELSE /\ dirs' = dirs \ {id}
            /\ manifests' = [manifests EXCEPT ![id] = NoManifest]
            /\ pidfile' = [pidfile EXCEPT ![id] = 0]
            /\ SetTask(t, Finished(t, "Ok"))
  /\ UNCHANGED <<runtime, lockHolder, stopReq, sentCmd, alive, owner, nextPid,
                 calls, callers, allowed_cwd_roots, usrVars, schVars, extVars>>

\* create_service without the `path.exists()` check of storage.rs 13-16
CreateResultOverwrite(m) ==
  IF ~validate_id(m.id) THEN "InvalidId"
  ELSE IF enforce_policy(m) # "Ok" THEN "PolicyViolation"
  ELSE "Ok"

\* the result of create_service(m), storage.rs 8-29
CreateResult(m) ==
  IF ~validate_id(m.id) THEN "InvalidId"
  ELSE IF enforce_policy(m) # "Ok" THEN "PolicyViolation"
  ELSE IF manifests[m.id] # NoManifest THEN "AlreadyExists"
  ELSE "Ok"

\* storage.rs 22-24: created_at is filled in with the current time
Created(m) ==
  IF m.created_at = None THEN [m EXCEPT !.created_at = Some(clock)] ELSE m

\* storage.rs 8-29
CreateService(t, m) ==
  /\ t \in callers
  /\ tasks[t].pc = "idle"
  /\ calls < MaxCalls
  /\ calls' = calls + 1
  /\ LET r == CreateResult(m) IN
       /\ SetTask(t, [Finished(t, r) EXCEPT !.op = "create_service"])
       /\ IF r = "Ok"
          THEN /\ manifests' = [manifests EXCEPT ![m.id] = Created(m)]
               /\ dirs' = dirs \cup {m.id}
          ELSE UNCHANGED <<manifests, dirs>>
  /\ UNCHANGED <<pidfile, runtime, lockHolder, stopReq, sentCmd, alive, owner,
                 nextPid, callers, allowed_cwd_roots, usrVars, schVars,
                 extVars>>

\* the result of update_service(id, m), storage.rs 33-55
UpdateResult(id, m) ==
  IF ~validate_id(id) THEN "InvalidId"
  ELSE IF m.id # id THEN "InvalidId"
  ELSE IF manifests[id] = NoManifest THEN "NotFound"
  ELSE IF enforce_policy(m) # "Ok" THEN "PolicyViolation"
  ELSE "Ok"

\* update_service that writes the body as it came
UpdatedAsSent(id, m) == m

\* storage.rs 46-50: created_at is taken over from the stored manifest
Updated(id, m) ==
  IF m.created_at = None
  THEN [m EXCEPT !.created_at = manifests[id].created_at]
  ELSE m

\* storage.rs 33-55
UpdateService(t, id, m) ==
  /\ t \in callers
  /\ tasks[t].pc = "idle"
  /\ calls < MaxCalls
  /\ calls' = calls + 1
  /\ LET r == UpdateResult(id, m) IN
       /\ SetTask(t, [Finished(t, r) EXCEPT !.op = "update_service"])
       /\ IF r = "Ok"
          THEN manifests' = [manifests EXCEPT ![id] = Updated(id, m)]
          ELSE UNCHANGED manifests
  /\ UNCHANGED <<dirs, pidfile, runtime, lockHolder, stopReq, sentCmd, alive,
                 owner, nextPid, callers, allowed_cwd_roots, usrVars,
                 schVars, extVars>>

\* ------------------------------------------------------------------------
\* Environment: a supervised process exits by itself
\* ------------------------------------------------------------------------

ProcessExit(p) ==
  /\ p \in alive
  /\ alive' = alive \ {p}
  /\ UNCHANGED <<manifests, dirs, pidfile, runtime, lockHolder, stopReq,
                 sentCmd, owner, nextPid, tasks, calls, callers,
                 allowed_cwd_roots, usrVars, schVars, extVars>>

\* ------------------------------------------------------------------------
\* ServiceScheduler
\* ------------------------------------------------------------------------

\* ServiceScheduler::validate_cron: six or seven fields, each one parsable
validate_cron(cron) ==
  IF Len(cron) \in {6, 7} /\ \A i \in 1..Len(cron) : cron[i] \in CronFields
  THEN "Ok" ELSE "InvalidSchedule"

\* scheduler.rs 89 without the test: every schedule goes on to be installed
skips_never(schedule) == FALSE

\* scheduler.rs 89: a disabled schedule or an empty cron installs nothing
skips(schedule) == ~schedule.enabled \/ schedule.cron = CronEmpty

\* the schedule asks for a timer: enabled, with a non-empty cron that parses
Wanted(schedule) ==
  /\ schedule.enabled
  /\ schedule.cron # CronEmpty
  /\ validate_cron(schedule.cron) = "Ok"

SetSchedTask(t, rec) == stasks' = [stasks EXCEPT ![t] = rec]

SchedDone(t, r) == [stasks[t] EXCEPT !.pc = "done", !.res = r]

\* a task holds the write guard of `scheduler` (shutdown, lines 71-79)
WriteHeld == \E t \in SchedTasks : stasks[t].pc = "sd_clear"

\* a task holds a read guard of `scheduler` (upsert_schedule, lines 99-166)
ReadHeld == \E t \in SchedTasks : stasks[t].pc = "up_insert"

\* a caller invokes upsert_schedule, remove_schedule or shutdown
SchedCall(t, op, id, schedule) ==
  /\ stasks[t].pc \in {"idle", "done"}
  /\ scalls < MaxSchedCalls
  /\ scalls' = scalls + 1
  /\ SetSchedTask(t, [IdleSchedTask EXCEPT
       !.op = op, !.id = id, !.schedule = schedule,
       !.pc = IF op = "shutdown" THEN "sd_take" ELSE "rm_take"])
  /\ UNCHANGED <<scheduler, jobs, timers, nextJob, lastUpsert, svcVars,
                 usrVars, extVars>>

\* scheduler.rs 224-226: list_schedules, the keys of the job map
ListSchedules(t) ==
  /\ stasks[t].pc \in {"idle", "done"}
  /\ scalls < MaxSchedCalls
  /\ scalls' = scalls + 1
  /\ SetSchedTask(t, [IdleSchedTask EXCEPT
       !.op = "list_schedules", !.pc = "done", !.res = "Ok",
       !.listed = {i \in Ids : jobs[i] # 0}])
  /\ UNCHANGED <<scheduler, jobs, timers, nextJob, lastUpsert, svcVars,
                 usrVars, extVars>>

\* where a call goes when remove_schedule has returned Ok
AfterRemove(t) ==
  IF stasks[t].op = "remove_schedule" THEN SchedDone(t, "Ok")
  ELSE [stasks[t] EXCEPT !.pc = "up_check"]

\* remove_schedule leaving the job map as it is
RemoveTakeKept(t) ==
  /\ stasks[t].pc = "rm_take"
  /\ SetSchedTask(t, AfterRemove(t))
  /\ lastUpsert' = IF stasks[t].op = "remove_schedule"
                   THEN [lastUpsert EXCEPT ![stasks[t].id] = NoRequest]
                   ELSE lastUpsert
  /\ UNCHANGED <<scheduler, jobs, timers, nextJob, scalls, svcVars, usrVars,
                 extVars>>

\* scheduler.rs 183: the entry of the job map is taken out
RemoveTake(t) ==
  /\ stasks[t].pc = "rm_take"
  /\ LET id == stasks[t].id IN
       /\ jobs' = [jobs EXCEPT ![id] = 0]
       /\ IF jobs[id] # 0
          THEN /\ SetSchedTask(t, [stasks[t] EXCEPT !.pc = "rm_timer",
                                                    !.job = jobs[id]])
               /\ UNCHANGED lastUpsert
          ELSE /\ SetSchedTask(t, AfterRemove(t))
               /\ lastUpsert' = IF stasks[t].op = "remove_schedule"
                                THEN [lastUpsert EXCEPT ![id] = NoRequest]
                                ELSE lastUpsert
  /\ UNCHANGED <<scheduler, timers, nextJob, scalls, svcVars, usrVars, extVars>>

\* scheduler.rs 185-193: the job is removed from the running JobScheduler
RemoveTimer(t) ==
  /\ stasks[t].pc = "rm_timer"
  /\ ~WriteHeld
  /\ timers' = IF scheduler
               THEN {j \in timers : j.uuid # stasks[t].job}
               ELSE timers
  /\ SetSchedTask(t, AfterRemove(t))
  /\ lastUpsert' = IF stasks[t].op = "remove_schedule"
                   THEN [lastUpsert EXCEPT ![stasks[t].id] = NoRequest]
                   ELSE lastUpsert
  /\ UNCHANGED <<scheduler, jobs, nextJob, scalls, svcVars, usrVars, extVars>>

\* scheduler.rs 89-97: disabled or empty cron returns Ok, an invalid cron
\* InvalidSchedule, otherwise ensure_started
UpsertCheck(t) ==
  /\ stasks[t].pc = "up_check"
  /\ LET sch == stasks[t].schedule IN
       IF skips(sch)
       THEN /\ SetSchedTask(t, SchedDone(t, "Ok"))
            /\ lastUpsert' = [lastUpsert EXCEPT ![stasks[t].id] =
                                [ok |-> Wanted(sch), failed |-> FALSE]]
            /\ UNCHANGED scheduler
       ELSE IF validate_cron(sch.cron) # "Ok"
       THEN /\ SetSchedTask(t, SchedDone(t, "InvalidSchedule"))
            /\ lastUpsert' = [lastUpsert EXCEPT ![stasks[t].id].failed = TRUE]
            /\ UNCHANGED scheduler
       ELSE /\ ~WriteHeld
            /\ scheduler' = TRUE
            /\ SetSchedTask(t, [stasks[t] EXCEPT !.pc = "up_add"])
            /\ UNCHANGED lastUpsert
  /\ UNCHANGED <<jobs, timers, nextJob, scalls, svcVars, usrVars, extVars>>

\* scheduler.rs 99-164: under a read guard, the job is built and added
UpsertAdd(t) ==
  /\ stasks[t].pc = "up_add"
  /\ ~WriteHeld
  /\ IF ~scheduler
     THEN /\ SetSchedTask(t, SchedDone(t, "Other"))
          /\ lastUpsert' = [lastUpsert EXCEPT ![stasks[t].id].failed = TRUE]
          /\ UNCHANGED <<timers, nextJob>>
     ELSE /\ timers' = timers \cup
                         {[uuid |-> nextJob, sid |-> stasks[t].id,
                           action |-> stasks[t].schedule.action]}
          /\ nextJob' = nextJob + 1
          /\ SetSchedTask(t, [stasks[t] EXCEPT !.pc = "up_insert",
                                               !.job = nextJob])
          /\ UNCHANGED lastUpsert
  /\ UNCHANGED <<scheduler, jobs, scalls, svcVars, usrVars, extVars>>

\* scheduler.rs 166-178: the uuid goes into the job map, Ok
UpsertInsert(t) ==
  /\ stasks[t].pc = "up_insert"
  /\ jobs' = [jobs EXCEPT ![stasks[t].id] = stasks[t].job]
  /\ lastUpsert' = [lastUpsert EXCEPT ![stasks[t].id] =
                      [ok |-> Wanted(stasks[t].schedule), failed |-> FALSE]]
  /\ SetSchedTask(t, SchedDone(t, "Ok"))
  /\ UNCHANGED <<scheduler, timers, nextJob, scalls, svcVars, usrVars, extVars>>

\* scheduler.rs 71-78: under the write guard the JobScheduler is taken out
\* and shut down
SchedulerShutdown(t) ==
  /\ stasks[t].pc = "sd_take"
  /\ ~WriteHeld
  /\ ~ReadHeld
  /\ scheduler' = FALSE
  /\ timers' = IF scheduler THEN {} ELSE timers
  /\ SetSchedTask(t, [stasks[t] EXCEPT !.pc = "sd_clear"])
  /\ UNCHANGED <<jobs, nextJob, scalls, lastUpsert, svcVars, usrVars, extVars>>

\* scheduler.rs 79-80: the job map is cleared, Ok
SchedulerClear(t) ==
  /\ stasks[t].pc = "sd_clear"
  /\ jobs' = [i \in Ids |-> 0]
  /\ lastUpsert' = [i \in Ids |-> NoRequest]
  /\ SetSchedTask(t, SchedDone(t, "Ok"))
  /\ UNCHANGED <<scheduler, timers, nextJob, scalls, svcVars, usrVars, extVars>>

\* the operation a job of the given action begins with (scheduler.rs
\* 115-143): status for Start and Stop, restart for Restart
JobOp(action) ==
  CASE action = "Start" -> "job_start"
    [] action = "Stop" -> "job_stop"
    [] action = "Restart" -> "restart"

\* scheduler.rs 109-114: the JobScheduler runs the closure of job j
Fire(t, j) ==
  /\ j \in timers
  /\ t \in callers
  /\ tasks[t].pc = "idle"
  /\ calls < MaxCalls
  /\ calls' = calls + 1
  /\ SetTask(t, [IdleTask EXCEPT
       !.op = JobOp(j.action), !.id = j.sid, !.pc = "st_reg",
       !.ret = IF j.action = "Restart" THEN "restart_chk" ELSE "job_chk"])
  /\ UNCHANGED <<manifests, dirs, pidfile, runtime, lockHolder, stopReq,
                 sentCmd, allowed_cwd_roots, alive, owner, nextPid, callers,
                 usrVars, schVars, extVars>>

\* a job that calls start and stop whatever the status is
JobNextUnconditional(t) ==
  IF tasks[t].op = "job_start"
  THEN [tasks[t] EXCEPT !.pc = "start_load"]
  ELSE [tasks[t] EXCEPT !.pc = "stop_load"]

\* scheduler.rs 118-127 and 132-141: start only when Stopped, stop only
\* when Running, else the run is skipped with Ok
JobNext(t) ==
  IF tasks[t].op = "job_start"
  THEN IF tasks[t].st = "Stopped"
       THEN [tasks[t] EXCEPT !.pc = "start_load"]
       ELSE Finished(t, "Skipped")
  ELSE IF tasks[t].st = "Running"
       THEN [tasks[t] EXCEPT !.pc = "stop_load"]
       ELSE Finished(t, "Skipped")

JobCheck(t) ==
  /\ tasks[t].pc = "job_chk"
  /\ SetTask(t, JobNext(t))
  /\ UNCHANGED <<manifests, dirs, pidfile, runtime, lockHolder, stopReq,
                 sentCmd, allowed_cwd_roots, alive, owner, nextPid, calls,
                 callers, usrVars, schVars, extVars>>

\* ------------------------------------------------------------------------
\* HTTP handlers of the manifest store (handlers/services.rs)
\* ------------------------------------------------------------------------

\* the scheduler call of a handler runs as the scheduler task of its own
SchedOf(t) == IF t = <<"api", "a">> THEN "p" ELSE "q"

\* where a handler goes after its manifest write returned r: to the
\* scheduler when it has a schedule to install or to remove, else it answers
AfterWrite(t, op, id, m, r, sync) ==
  IF r = "Ok" /\ sync
  THEN [IdleTask EXCEPT !.op = op, !.id = id, !.m = m, !.pc = "sync"]
  ELSE [IdleTask EXCEPT !.op = op, !.id = id, !.res = r, !.pc = "done"]

\* services.rs 36-51: create_service, then upsert_schedule when the stored
\* manifest has a schedule
HandleCreate(t, m) ==
  /\ t \in callers
  /\ tasks[t].pc = "idle"
  /\ calls < MaxCalls
  /\ calls' = calls + 1
  /\ LET r == CreateResult(m) IN
       /\ SetTask(t, AfterWrite(t, "create_handler", m.id, m, r,
                                m.schedule # None))
       /\ IF r = "Ok"
          THEN /\ manifests' = [manifests EXCEPT ![m.id] = Created(m)]
               /\ dirs' = dirs \cup {m.id}
          ELSE UNCHANGED <<manifests, dirs>>
  /\ UNCHANGED <<pidfile, runtime, lockHolder, stopReq, sentCmd, alive, owner,
                 nextPid, callers, allowed_cwd_roots, usrVars, schVars,
                 extVars>>

\* services.rs 80-99: update_service, then upsert_schedule or
\* remove_schedule
HandleUpdate(t, id, m) ==
  /\ t \in callers
  /\ tasks[t].pc = "idle"
  /\ calls < MaxCalls
  /\ calls' = calls + 1
  /\ LET r == UpdateResult(id, m) IN
       /\ SetTask(t, AfterWrite(t, "update_handler", id, m, r, TRUE))
       /\ IF r = "Ok"
          THEN manifests' = [manifests EXCEPT ![id] = Updated(id, m)]
          ELSE UNCHANGED manifests
  /\ UNCHANGED <<dirs, pidfile, runtime, lockHolder, stopReq, sentCmd, alive,
                 owner, nextPid, callers, allowed_cwd_roots, usrVars,
                 schVars, extVars>>

\* services.rs 197-203: an enabled schedule with a non-empty cron must parse
PayloadChecked(schedule) ==
  IF schedule # None /\ schedule[1].enabled /\ schedule[1].cron # CronEmpty
  THEN IF validate_cron(schedule[1].cron) = "Ok" THEN "Ok" ELSE "BadRequest"
  ELSE "Ok"

\* services.rs 190-203: update_schedule validates its payload
HandleSchedule(t, id, schedule) ==
  /\ t \in callers
  /\ tasks[t].pc = "idle"
  /\ calls < MaxCalls
  /\ calls' = calls + 1
  /\ SetTask(t, IF PayloadChecked(schedule) = "Ok"
                THEN [IdleTask EXCEPT !.op = "update_schedule", !.id = id,
                                      !.arg = schedule, !.pc = "us_load"]
                ELSE [IdleTask EXCEPT !.op = "update_schedule", !.id = id,
                                      !.res = "BadRequest", !.pc = "done"])
  /\ UNCHANGED <<manifests, dirs, pidfile, runtime, lockHolder, stopReq,
                 sentCmd, alive, owner, nextPid, callers, allowed_cwd_roots,
                 usrVars, schVars, extVars>>

\* services.rs 206-207: load_manifest, the schedule is replaced
ScheduleLoad(t) ==
  /\ tasks[t].pc = "us_load"
  /\ LET id == tasks[t].id IN
       IF manifests[id] = NoManifest
       THEN SetTask(t, Finished(t, "NotFound"))
       ELSE SetTask(t, [tasks[t] EXCEPT
              !.m = [manifests[id] EXCEPT !.schedule = tasks[t].arg],
              !.arg = None, !.pc = "us_write"])
  /\ UNCHANGED <<manifests, dirs, pidfile, runtime, lockHolder, stopReq,
                 sentCmd, alive, owner, nextPid, calls, callers,
                 allowed_cwd_roots, usrVars, schVars, extVars>>

\* services.rs 208: update_service with the manifest that was loaded
ScheduleWrite(t) ==
  /\ tasks[t].pc = "us_write"
  /\ LET id == tasks[t].id
         m == tasks[t].m
         r == UpdateResult(id, m) IN
       /\ SetTask(t, AfterWrite(t, "update_schedule", id, m, r, TRUE))
       /\ IF r = "Ok"
          THEN manifests' = [manifests EXCEPT ![id] = Updated(id, m)]
          ELSE UNCHANGED manifests
  /\ UNCHANGED <<dirs, pidfile, runtime, lockHolder, stopReq, sentCmd, alive,
                 owner, nextPid, calls, callers, allowed_cwd_roots, usrVars,
                 schVars, extVars>>

\* services.rs 44-45, 89-95, 211-215: the handler calls upsert_schedule
\* with the schedule of its payload, or remove_schedule when it has none
SyncCall(t) ==
  /\ tasks[t].pc = "sync"
  /\ LET s == SchedOf(t)
         sch == tasks[t].m.schedule IN
       /\ stasks[s].pc \in {"idle", "done"}
       /\ scalls < MaxSchedCalls
       /\ scalls' = scalls + 1
       /\ SetSchedTask(s, [IdleSchedTask EXCEPT
            !.op = IF sch = None THEN "remove_schedule"
                   ELSE "upsert_schedule",
            !.id = tasks[t].id,
            !.schedule = IF sch = None THEN NoSchedule ELSE sch[1],
            !.pc = "rm_take"])
       /\ SetTask(t, [tasks[t] EXCEPT !.pc = "sync_wait"])
  /\ UNCHANGED <<manifests, dirs, pidfile, runtime, lockHolder, stopReq,
                 sentCmd, alive, owner, nextPid, calls, callers,
                 allowed_cwd_roots, scheduler, jobs, timers, nextJob,
                 lastUpsert, usrVars, extVars>>

\* services.rs 67-74: the delete handler begins with remove_schedule
HandleDelete(t, id) ==
  /\ t \in callers
  /\ tasks[t].pc = "idle"
  /\ calls < MaxCalls
  /\ calls' = calls + 1
  /\ stasks[SchedOf(t)].pc \in {"idle", "done"}
  /\ scalls < MaxSchedCalls
  /\ scalls' = scalls + 1
  /\ SetSchedTask(SchedOf(t), [IdleSchedTask EXCEPT
       !.op = "remove_schedule", !.id = id, !.pc = "rm_take"])
  /\ SetTask(t, [IdleTask EXCEPT !.op = "delete_handler", !.id = id,
                                 !.pc = "del_wait"])
  /\ UNCHANGED <<manifests, dirs, pidfile, runtime, lockHolder, stopReq,
                 sentCmd, alive, owner, nextPid, callers, allowed_cwd_roots,
                 scheduler, jobs, timers, nextJob, lastUpsert, usrVars,
                 extVars>>

\* services.rs 74-76: whatever remove_schedule returned, delete_service is
\* called, which begins with status (storage.rs 120)
HandleDeleteService(t) ==
  /\ tasks[t].pc = "del_wait"
  /\ stasks[SchedOf(t)].pc = "done"
  /\ SetTask(t, [tasks[t] EXCEPT !.pc = "st_reg", !.ret = "delete_chk"])
  /\ UNCHANGED <<manifests, dirs, pidfile, runtime, lockHolder, stopReq,
                 sentCmd, alive, owner, nextPid, calls, callers,
                 allowed_cwd_roots, usrVars, schVars, extVars>>

\* the scheduler call has returned: create_service and update_service log
\* an error and answer Ok (services.rs 45-47, 90-92), update_schedule
\* passes it on (services.rs 212, 214)
SyncDone(t) ==
  /\ tasks[t].pc = "sync_wait"
  /\ stasks[SchedOf(t)].pc = "done"
  /\ SetTask(t, Finished(t, IF tasks[t].op = "update_schedule"
                            THEN stasks[SchedOf(t)].res ELSE "Ok"))
  /\ UNCHANGED <<manifests, dirs, pidfile, runtime, lockHolder, stopReq,
                 sentCmd, alive, owner, nextPid, calls, callers,
                 allowed_cwd_roots, usrVars, schVars, extVars>>

\* time passes
Tick ==
  /\ clock < MaxClock
  /\ clock' = clock + 1
  /\ UNCHANGED <<groups, logVars, rlVars, svcVars, usrVars, schVars, dirVars,
                 fileVars>>

\* ------------------------------------------------------------------------
\* Service groups (manager/groups.rs)
\* ------------------------------------------------------------------------

\* the ids of a group list
GroupIdsOf(list) == {list[i].id : i \in 1..Len(list)}

\* groups.rs 46: the largest order of the list, -1 when it is empty
MaxOrder(list) ==
  IF list = <<>> THEN -1
  ELSE CHOOSE o \in {list[i].order : i \in 1..Len(list)} :
         \A i \in 1..Len(list) : list[i].order <= o

\* a caller invokes create_group or delete_group; groups.rs 38 and 92:
\* list_groups reads groups.json
GroupCall(t, op, g) ==
  /\ t \in callers
  /\ tasks[t].pc = "idle"
  /\ calls < MaxCalls
  /\ calls' = calls + 1
  /\ SetTask(t, [IdleTask EXCEPT
       !.op = op, !.id = g, !.arg = groups,
       !.pc = IF op = "create_group" THEN "cg_save" ELSE "dg_save"])
  /\ UNCHANGED <<manifests, dirs, pidfile, runtime, lockHolder, stopReq,
                 sentCmd, alive, owner, nextPid, callers, allowed_cwd_roots,
                 usrVars, schVars, extVars>>

\* groups.rs 41-58: AlreadyExists, or the list with the new group is saved
CreateGroupSave(t) ==
  /\ tasks[t].pc = "cg_save"
  /\ LET list == tasks[t].arg
         g == tasks[t].id IN
       IF g \in GroupIdsOf(list)
       THEN /\ SetTask(t, Finished(t, "AlreadyExists"))
            /\ UNCHANGED groups
       ELSE /\ groups' = Append(list, [id |-> g, order |-> MaxOrder(list) + 1])
            /\ SetTask(t, Finished(t, "Ok"))
  /\ UNCHANGED <<manifests, dirs, pidfile, runtime, lockHolder, stopReq,
                 sentCmd, alive, owner, nextPid, calls, callers,
                 allowed_cwd_roots, clock, logVars, rlVars, usrVars,
                 schVars, dirVars, fileVars>>

\* groups.rs 93-100: NotFound, or the list without the group is saved
DeleteGroupSave(t) ==
  /\ tasks[t].pc = "dg_save"
  /\ LET list == tasks[t].arg
         g == tasks[t].id IN
       IF g \notin GroupIdsOf(list)
       THEN /\ SetTask(t, Finished(t, "NotFound"))
            /\ UNCHANGED groups
       ELSE /\ groups' = SelectSeq(list, LAMBDA e : e.id # g)
            /\ SetTask(t, [tasks[t] EXCEPT !.arg = None, !.pc = "dg_list"])
  /\ UNCHANGED <<manifests, dirs, pidfile, runtime, lockHolder, stopReq,
                 sentCmd, alive, owner, nextPid, calls, callers,
                 allowed_cwd_roots, clock, logVars, rlVars, usrVars,
                 schVars, dirVars, fileVars>>

\* groups.rs 103-105: list_services loads every manifest and asks the
\* status of every service (a status call on a registry entry whose pid is
\* dead never returns; one on a stale pidfile removes it); the services
\* whose summary names the group are the ones the loop works on
DeleteGroupList(t) ==
  /\ tasks[t].pc = "dg_list"
  /\ lockHolder = NoTask
  /\ LET stored == {i \in DOMAIN manifests : manifests[i] # NoManifest} IN
       /\ \A i \in stored : runtime[i] = 0 \/ process_alive(runtime[i])
       /\ pidfile' = [i \in DOMAIN pidfile |->
                        IF /\ i \in stored
                           /\ runtime[i] = 0
                           /\ pidfile[i] # 0
                           /\ ~process_alive(pidfile[i])
                        THEN 0 ELSE pidfile[i]]
       /\ LET members == {i \in stored :
                            manifests[i].group = Some(tasks[t].id)} IN
            SetTask(t, IF members = {}
                       THEN Finished(t, "Ok")
                       ELSE [tasks[t] EXCEPT !.todo = members,
                                             !.pc = "dg_load"])
  /\ UNCHANGED <<manifests, dirs, runtime, lockHolder, stopReq, sentCmd,
                 alive, owner, nextPid, calls, callers, allowed_cwd_roots,
                 usrVars, schVars, extVars>>

\* groups.rs 106-107: load_manifest of the next member, group set to None
DeleteGroupLoad(t, i) ==
  /\ tasks[t].pc = "dg_load"
  /\ i \in tasks[t].todo
  /\ IF manifests[i] = NoManifest
     THEN SetTask(t, Finished(t, "NotFound"))
     ELSE SetTask(t, [tasks[t] EXCEPT
            !.m = [manifests[i] EXCEPT !.group = None],
            !.todo = tasks[t].todo \ {i}, !.pc = "dg_write"])
  /\ UNCHANGED <<manifests, dirs, pidfile, runtime, lockHolder, stopReq,
                 sentCmd, alive, owner, nextPid, calls, callers,
                 allowed_cwd_roots, usrVars, schVars, extVars>>

\* groups.rs 108: update_service with the manifest that was loaded; the
\* loop goes on, ends with Ok, or ends with the error of update_service
DeleteGroupWrite(t) ==
  /\ tasks[t].pc = "dg_write"
  /\ LET m == tasks[t].m
         r == UpdateResult(m.id, m) IN
       IF r = "Ok"
       THEN /\ manifests' = [manifests EXCEPT ![m.id] = Updated(m.id, m)]
            /\ SetTask(t, IF tasks[t].todo = {}
                          THEN Finished(t, "Ok")
                          ELSE [tasks[t] EXCEPT !.m = NoManifest,
                                                !.pc = "dg_load"])
       ELSE /\ SetTask(t, Finished(t, r))
            /\ UNCHANGED manifests
  /\ UNCHANGED <<dirs, pidfile, runtime, lockHolder, stopReq, sentCmd, alive,
                 owner, nextPid, calls, callers, allowed_cwd_roots, usrVars,
                 schVars, extVars>>

\* ------------------------------------------------------------------------
\* Output fan-out: spawn_output_handler and follow_logs_raw
\* ------------------------------------------------------------------------

\* lifecycle.rs 394-396: the worker reads the next chunk from the PTY
OutputRead ==
  /\ worker.pc = "read"
  /\ worker.read < MaxChunks
  /\ worker' = [pc |-> "send", cur |-> worker.read + 1,
                read |-> worker.read + 1]
  /\ UNCHANGED <<sent, logfile, rx, stoVars, rlVars, svcVars, usrVars,
                 schVars, dirVars, fileVars>>

\* lifecycle.rs 398: out_tx.send, which never waits for a receiver
OutputSend ==
  /\ worker.pc = "send"
  /\ sent' = Append(sent, worker.cur)
  /\ worker' = [worker EXCEPT !.pc = "append"]
  /\ UNCHANGED <<logfile, rx, stoVars, rlVars, svcVars, usrVars, schVars,
                 dirVars, fileVars>>

\* lifecycle.rs 400-404: the chunk is appended to the log file
OutputAppend ==
  /\ worker.pc = "append"
  /\ logfile' = Append(logfile, worker.cur)
  /\ worker' = [worker EXCEPT !.pc = "read", !.cur = 0]
  /\ UNCHANGED <<sent, rx, stoVars, rlVars, svcVars, usrVars, schVars,
                 dirVars, fileVars>>

\* logs.rs 116-121: with a registry entry the stream subscribes to the
\* channel; the receiver starts after the last chunk sent
FollowLogsRaw(id) ==
  /\ ~rx.open
  /\ runtime[id] # 0
  /\ rx' = [open |-> TRUE, next |-> Len(sent) + 1, since |-> Len(logfile),
            got |-> <<>>]
  /\ UNCHANGED <<worker, sent, logfile, stoVars, rlVars, svcVars, usrVars,
                 schVars, dirVars, fileVars>>

\* the oldest chunk the channel still holds
Oldest == IF Len(sent) > ChannelCap THEN Len(sent) - ChannelCap + 1 ELSE 1

\* logs.rs 127-136: recv yields the next chunk, or, when the receiver has
\* fallen behind the channel, the notice with the number of chunks skipped
Recv ==
  IF rx.next < Oldest
  THEN [rx EXCEPT !.next = Oldest,
                  !.got = Append(rx.got, <<"dropped", Oldest - rx.next>>)]
  ELSE [rx EXCEPT !.next = rx.next + 1,
                  !.got = Append(rx.got, <<"chunk", sent[rx.next]>>)]

\* the stream is polled
StreamRecv ==
  /\ rx.open
  /\ rx.next <= Len(sent)
  /\ rx' = Recv
  /\ UNCHANGED <<worker, sent, logfile, stoVars, rlVars, svcVars, usrVars,
                 schVars, dirVars, fileVars>>

\* attach.rs 10-16 of the manager, called by attach_service: with a
\* registry entry the handle subscribes to the channel; the receiver starts
\* after the last chunk sent
AttachSubscribe(id) ==
  /\ session.pc = "none"
  /\ runtime[id] # 0
  /\ session' = [session EXCEPT !.pc = "subscribed", !.since = Len(sent)]
  /\ UNCHANGED <<logBytes, logVars, stoVars, rlVars, svcVars, usrVars,
                 schVars, dirVars>>

\* handle_socket, attach.rs 53-58 of the API: the tail of the log file as
\* it is now becomes the first frame (logs.rs 9-30; the chunks of the model
\* stay below the 64 KiB of the call)
SocketReplay ==
  /\ session.pc = "subscribed"
  /\ session' = [session EXCEPT !.pc = "live", !.replay = logfile]
  /\ UNCHANGED <<logBytes, logVars, stoVars, rlVars, svcVars, usrVars,
                 schVars, dirVars>>

\* ------------------------------------------------------------------------
\* RateLimiter (app/rate_limit.rs)
\* ------------------------------------------------------------------------

\* Instant::duration_since, which gives zero for a later instant
duration_since(now, t) == IF now >= t THEN now - t ELSE 0

\* rate_limit.rs 30: the timestamps still inside the window
Retained(times, now) ==
  SelectSeq(times, LAMBDA t : duration_since(now, t) < RateWindow)

\* rate_limit.rs 26: allow reads the clock, then waits for the mutex
AllowCall(t, key) ==
  /\ rtasks[t].pc \in {"idle", "done"}
  /\ rcalls < MaxRateCalls
  /\ rcalls' = rcalls + 1
  /\ rtasks' = [rtasks EXCEPT ![t] =
       [pc |-> "lock", key |-> key, now |-> clock, res |-> NoVal]]
  /\ UNCHANGED <<buckets, admitted, stoVars, logVars, svcVars, usrVars,
                 schVars, dirVars, fileVars>>

\* rate_limit.rs 28-48, under the mutex: the bucket is pruned, the call is
\* admitted and recorded when fewer than `limit` timestamps remain
AllowLocked(t) ==
  /\ rtasks[t].pc = "lock"
  /\ LET key == rtasks[t].key
         now == rtasks[t].now
         entry == Retained(buckets[key], now)
         allowed == Len(entry) < RateLimit IN
       /\ buckets' = [buckets EXCEPT ![key] =
                        IF allowed THEN Append(entry, now) ELSE entry]
       /\ admitted' = [admitted EXCEPT ![key] =
                         IF allowed THEN Append(admitted[key], now)
                         ELSE admitted[key]]
       /\ rtasks' = [rtasks EXCEPT ![t] =
            [rtasks[t] EXCEPT !.pc = "done", !.res = allowed]]
  /\ UNCHANGED <<rcalls, stoVars, logVars, svcVars, usrVars, schVars, dirVars,
                 fileVars>>

\* ------------------------------------------------------------------------
\* The user directory: create_user and the username index (user/manager.rs)
\* ------------------------------------------------------------------------

\* find_by_username, manager.rs 234-248: the index entry, when its user
\* file exists
IndexHit(username) ==
  /\ usernameIndex[username] # 0
  /\ userFiles[usernameIndex[username]] # NoVal

\* find_by_username, manager.rs 240-245: an entry whose file is gone is
\* dropped from the index
IndexCleaned(username) ==
  IF usernameIndex[username] # 0 /\ ~IndexHit(username)
  THEN [usernameIndex EXCEPT ![username] = 0]
  ELSE usernameIndex

\* find_by_username, manager.rs 257-276: the user files of that username
ScanDir(username) == {u \in Uuids : userFiles[u] = username}

SetDirTask(t, rec) == ctasks' = [ctasks EXCEPT ![t] = rec]

\* create_user, manager.rs 140-152: find_by_username answers from the
\* index or from the scan (which repairs the index); a username that is
\* found ends the call, otherwise the password is hashed
CreateUserFind(t, username) ==
  /\ ctasks[t].pc \in {"idle", "done"}
  /\ ccalls < MaxDirCalls
  /\ ccalls' = ccalls + 1
  /\ LET call == [IdleDirTask EXCEPT !.username = username] IN
       IF IndexHit(username)
       THEN /\ SetDirTask(t, [call EXCEPT !.pc = "done",
                                 !.id = usernameIndex[username],
                                 !.res = "AlreadyExists"])
            /\ UNCHANGED usernameIndex
       ELSE IF ScanDir(username) # {}
       THEN \E u \in ScanDir(username) :
              /\ SetDirTask(t, [call EXCEPT !.pc = "done", !.id = u,
                                   !.res = "AlreadyExists"])
              /\ usernameIndex' =
                   [IndexCleaned(username) EXCEPT ![username] = u]
       ELSE /\ SetDirTask(t, [call EXCEPT !.pc = "persist"])
            /\ usernameIndex' = IndexCleaned(username)
  /\ UNCHANGED <<userFiles, nextUuid, stoVars, logVars, rlVars, svcVars,
                 usrVars, schVars, fileVars>>

\* create_user, manager.rs 155-169: a new uuid, the user file is written
CreateUserPersist(t) ==
  /\ ctasks[t].pc = "persist"
  /\ nextUuid <= MaxUuid
  /\ userFiles' = [userFiles EXCEPT ![nextUuid] = ctasks[t].username]
  /\ nextUuid' = nextUuid + 1
  /\ SetDirTask(t, [ctasks[t] EXCEPT !.pc = "load_index", !.id = nextUuid])
  /\ UNCHANGED <<usernameIndex, ccalls, stoVars, logVars, rlVars, svcVars,
                 usrVars, schVars, fileVars>>

\* create_user, manager.rs 170: load_username_index
CreateUserLoadIndex(t) ==
  /\ ctasks[t].pc = "load_index"
  /\ SetDirTask(t, [ctasks[t] EXCEPT !.pc = "save_index",
                                     !.index = usernameIndex])
  /\ UNCHANGED <<userFiles, usernameIndex, nextUuid, ccalls, stoVars,
                 logVars, rlVars, svcVars, usrVars, schVars, fileVars>>

\* create_user, manager.rs 171-175: the entry is inserted into the index
\* that was loaded and the index is written
CreateUserSaveIndex(t) ==
  /\ ctasks[t].pc = "save_index"
  /\ usernameIndex' =
       [ctasks[t].index EXCEPT ![ctasks[t].username] = ctasks[t].id]
  /\ SetDirTask(t, [ctasks[t] EXCEPT !.pc = "done", !.res = "Ok"])
  /\ UNCHANGED <<userFiles, nextUuid, ccalls, stoVars, logVars, rlVars,
                 svcVars, usrVars, schVars, fileVars>>

\* ------------------------------------------------------------------------
\* The supervisor
\* ------------------------------------------------------------------------

LifecycleOps == {"start", "shutdown", "kill", "stop", "restart", "status"}

Next ==
  \/ \E t \in ApiTasks, op \in LifecycleOps, id \in LifecycleIds :
       Call(t, op, id)
  \/ \E t \in ApiTasks, id \in Ids : Call(t, "delete_service", id)
  \/ \E t \in ApiTasks : Return(t)
  \/ \E t \in ApiTasks, m \in CreateInputs : CreateService(t, m)
  \/ \E t \in ApiTasks, id \in Ids \cup {BadId}, m \in UpdateInputs :
       UpdateService(t, id, m)
  \/ \E t \in Tasks : StatusRegistry(t)
  \/ \E t \in Tasks : StatusPidfile(t)
  \/ \E t \in Tasks : StatusStale(t)
  \/ \E t \in Tasks : StartLoad(t)
  \/ \E t \in Tasks : StartSpawn(t)
  \/ \E t \in Tasks : StartInsert(t)
  \/ \E t \in Tasks : StartWritePid(t)
  \/ \E t \in Tasks : StartSettle(t)
  \/ \E t \in Tasks : StartFail(t)
  \/ \E p \in Pids : WaitExit(p)
  \/ \E p \in Pids : WaitRemovePid(p)
  \/ \E p \in Pids : WaitRemoveHandle(p)
  \/ \E p \in Pids : WaitRestart(p)
  \/ \E t \in ApiTasks : ShutdownLoad(t)
  \/ \E t \in ApiTasks : ShutdownCheck(t)
  \/ \E t \in ApiTasks : ShutdownFlag(t)
  \/ \E t \in ApiTasks : ShutdownSend(t)
  \/ \E t \in ApiTasks : KillLookup(t)
  \/ \E t \in ApiTasks : KillFlag(t)
  \/ \E t \in ApiTasks : KillRemoveHandle(t)
  \/ \E t \in ApiTasks : KillSignal(t)
  \/ \E t \in ApiTasks : KillWait(t)
  \/ \E t \in ApiTasks : KillRemovePid(t)
  \/ \E t \in ApiTasks : StopDispatch(t)
  \/ \E t \in ApiTasks : RestartCheck(t)
  \/ \E t \in ApiTasks : DeleteService(t)
  \/ \E p \in AllPids : ProcessExit(p)

Spec == Init /\ [][Next]_vars

\* ------------------------------------------------------------------------
\* Two callers at once on a service that has been created (the state one
\* create_service call leaves): the scheduler's job and an API request, or
\* two API requests, calling start and restart
\* ------------------------------------------------------------------------

StoredInputs ==
  {m \in [id : Ids,
          command : Commands,
          shutdown_command : {NoVal, "stop"},
          auto_restart : BOOLEAN,
          cwd : {NoCwd},
          schedule : {None},
          group : {None},
          created_at : {Some(0)},
          clear_log_on_start : {TRUE}] :
     enforce_policy(m) = "Ok"}

InitRace ==
  /\ allowed_cwd_roots = {}
  /\ manifests \in [Ids -> StoredInputs]
  /\ \A i \in Ids : manifests[i].id = i
  /\ dirs = Ids
  /\ pidfile = [i \in Ids |-> 0]
  /\ runtime = [i \in Ids |-> 0]
  /\ lockHolder = NoTask
  /\ stopReq = {}
  /\ sentCmd = {}
  /\ alive = {}
  /\ owner = [p \in AllPids |-> NoOwner]
  /\ nextPid = 1
  /\ tasks = [t \in Tasks |-> IF t \in ApiTasks THEN IdleTask ELSE OffTask]
  /\ calls = 1
  /\ callers = ApiTasks
  /\ UserInit
  /\ ExtInit
  /\ SchedulerInit

NextRace ==
  \/ \E t \in ApiTasks, op \in {"start", "restart"}, id \in LifecycleIds :
       Call(t, op, id)
  \/ \E t \in ApiTasks : Return(t)
  \/ \E t \in Tasks : StatusRegistry(t)
  \/ \E t \in Tasks : StatusPidfile(t)
  \/ \E t \in Tasks : StatusStale(t)
  \/ \E t \in Tasks : StartLoad(t)
  \/ \E t \in Tasks : StartSpawn(t)
  \/ \E t \in Tasks : StartInsert(t)
  \/ \E t \in Tasks : StartWritePid(t)
  \/ \E t \in Tasks : StartSettle(t)
  \/ \E t \in Tasks : StartFail(t)
  \/ \E p \in Pids : WaitExit(p)
  \/ \E p \in Pids : WaitRemovePid(p)
  \/ \E p \in Pids : WaitRemoveHandle(p)
  \/ \E p \in Pids : WaitRestart(p)
  \/ \E t \in ApiTasks : ShutdownLoad(t)
  \/ \E t \in ApiTasks : ShutdownCheck(t)
  \/ \E t \in ApiTasks : ShutdownFlag(t)
  \/ \E t \in ApiTasks : ShutdownSend(t)
  \/ \E t \in ApiTasks : KillLookup(t)
  \/ \E t \in ApiTasks : KillFlag(t)
  \/ \E t \in ApiTasks : KillRemoveHandle(t)
  \/ \E t \in ApiTasks : KillSignal(t)
  \/ \E t \in ApiTasks : KillWait(t)
  \/ \E t \in ApiTasks : KillRemovePid(t)
  \/ \E t \in ApiTasks : StopDispatch(t)
  \/ \E t \in ApiTasks : RestartCheck(t)
  \/ \E p \in AllPids : ProcessExit(p)

SpecRace == InitRace /\ [][NextRace]_vars

\* ------------------------------------------------------------------------
\* The supervisor after a restart of the API process: the services are
\* stored, the registry is empty, and a pidfile left by the previous process
\* names an instance that may or may not have survived
\* ------------------------------------------------------------------------

InitAdopt ==
  /\ allowed_cwd_roots = {}
  /\ manifests \in [Ids -> StoredInputs]
  /\ \A i \in Ids : manifests[i].id = i
  /\ dirs = Ids
  /\ pidfile = [i \in Ids |-> AdoptedPid]
  /\ runtime = [i \in Ids |-> 0]
  /\ lockHolder = NoTask
  /\ stopReq = {}
  /\ sentCmd = {}
  /\ alive \in {{}, {AdoptedPid}}
  /\ owner = [p \in AllPids |->
               IF p = AdoptedPid
               THEN [id |-> SvcA, command |-> manifests[SvcA].command]
               ELSE NoOwner]
  /\ nextPid = 1
  /\ tasks = [t \in Tasks |-> IF t \in ApiTasks THEN IdleTask ELSE OffTask]
  /\ calls = 1
  /\ callers = ApiTasks
  /\ UserInit
  /\ ExtInit
  /\ SchedulerInit

NextAdopt ==
  \/ \E t \in ApiTasks, op \in LifecycleOps, id \in LifecycleIds :
       Call(t, op, id)
  \/ \E t \in ApiTasks, id \in LifecycleIds : Call(t, "attach", id)
  \/ \E t \in ApiTasks, id \in Ids : Call(t, "delete_service", id)
  \/ \E t \in ApiTasks : Return(t)
  \/ \E t \in ApiTasks, m \in CreateInputs : CreateService(t, m)
  \/ \E t \in ApiTasks, id \in Ids \cup {BadId}, m \in UpdateInputs :
       UpdateService(t, id, m)
  \/ \E t \in Tasks : StatusRegistry(t)
  \/ \E t \in Tasks : StatusPidfile(t)
  \/ \E t \in Tasks : StatusStale(t)
  \/ \E t \in Tasks : StartLoad(t)
  \/ \E t \in Tasks : StartSpawn(t)
  \/ \E t \in Tasks : StartInsert(t)
  \/ \E t \in Tasks : StartWritePid(t)
  \/ \E t \in Tasks : StartSettle(t)
  \/ \E t \in Tasks : StartFail(t)
  \/ \E p \in Pids : WaitExit(p)
  \/ \E p \in Pids : WaitRemovePid(p)
  \/ \E p \in Pids : WaitRemoveHandle(p)
  \/ \E p \in Pids : WaitRestart(p)
  \/ \E t \in ApiTasks : ShutdownLoad(t)
  \/ \E t \in ApiTasks : ShutdownCheck(t)
  \/ \E t \in ApiTasks : ShutdownFlag(t)
  \/ \E t \in ApiTasks : ShutdownSend(t)
  \/ \E t \in ApiTasks : KillLookup(t)
  \/ \E t \in ApiTasks : KillFlag(t)
  \/ \E t \in ApiTasks : KillRemoveHandle(t)
  \/ \E t \in ApiTasks : KillSignal(t)
  \/ \E t \in ApiTasks : KillWait(t)
  \/ \E t \in ApiTasks : KillRemovePid(t)
  \/ \E t \in ApiTasks : StopDispatch(t)
  \/ \E t \in ApiTasks : RestartCheck(t)
  \/ \E t \in ApiTasks : AttachCheck(t)
  \/ \E t \in ApiTasks : AttachLookup(t)
  \/ \E t \in ApiTasks : DeleteService(t)
  \/ \E p \in AllPids : ProcessExit(p)

SpecAdopt == InitAdopt /\ [][NextAdopt]_vars

\* ------------------------------------------------------------------------
\* The scheduler over a stored, stopped service: one caller of the
\* scheduler, and the jobs the JobScheduler fires
\* ------------------------------------------------------------------------

InitSched ==
  /\ allowed_cwd_roots = {}
  /\ manifests \in [Ids -> StoredInputs]
  /\ \A i \in Ids : manifests[i].id = i
  /\ dirs = Ids
  /\ pidfile = [i \in Ids |-> 0]
  /\ runtime = [i \in Ids |-> 0]
  /\ lockHolder = NoTask
  /\ stopReq = {}
  /\ sentCmd = {}
  /\ alive = {}
  /\ owner = [p \in AllPids |-> NoOwner]
  /\ nextPid = 1
  /\ tasks = [t \in Tasks |-> IF t \in ApiTasks THEN IdleTask ELSE OffTask]
  /\ calls = 0
  /\ callers = {<<"api", "a">>}
  /\ UserInit
  /\ ExtInit
  /\ SchedulerInit

\* the one task that calls the scheduler when calls do not overlap
SeqSchedTasks == {"p"}

NextSched ==
  \/ \E t \in SeqSchedTasks, id \in Ids, sch \in Schedules :
       SchedCall(t, "upsert_schedule", id, sch)
  \/ \E t \in SeqSchedTasks, id \in Ids :
       SchedCall(t, "remove_schedule", id, NoSchedule)
  \/ \E t \in SeqSchedTasks : SchedCall(t, "shutdown", NoId, NoSchedule)
  \/ \E t \in SeqSchedTasks : ListSchedules(t)
  \/ \E t \in SeqSchedTasks : RemoveTake(t)
  \/ \E t \in SeqSchedTasks : RemoveTimer(t)
  \/ \E t \in SeqSchedTasks : UpsertCheck(t)
  \/ \E t \in SeqSchedTasks : UpsertAdd(t)
  \/ \E t \in SeqSchedTasks : UpsertInsert(t)
  \/ \E t \in SeqSchedTasks : SchedulerShutdown(t)
  \/ \E t \in SeqSchedTasks : SchedulerClear(t)

SpecSched == InitSched /\ [][NextSched]_vars

\* ------------------------------------------------------------------------
\* The scheduler with two callers whose calls overlap (an update of a
\* service while reload_all or another update of it runs)
\* ------------------------------------------------------------------------

NextSchedRace ==
  \/ \E t \in SchedTasks, id \in Ids, sch \in Schedules :
       SchedCall(t, "upsert_schedule", id, sch)
  \/ \E t \in SchedTasks, id \in Ids :
       SchedCall(t, "remove_schedule", id, NoSchedule)
  \/ \E t \in SchedTasks : SchedCall(t, "shutdown", NoId, NoSchedule)
  \/ \E t \in SchedTasks : ListSchedules(t)
  \/ \E t \in SchedTasks : RemoveTake(t)
  \/ \E t \in SchedTasks : RemoveTimer(t)
  \/ \E t \in SchedTasks : UpsertCheck(t)
  \/ \E t \in SchedTasks : UpsertAdd(t)
  \/ \E t \in SchedTasks : UpsertInsert(t)
  \/ \E t \in SchedTasks : SchedulerShutdown(t)
  \/ \E t \in SchedTasks : SchedulerClear(t)

SpecSchedRace == InitSched /\ [][NextSchedRace]_vars

\* ------------------------------------------------------------------------
\* The scheduler and its jobs: a schedule is installed for the stored
\* service, which is stopped or runs as instance 1; the JobScheduler runs
\* the job against the supervisor while one call removes the schedule
\* ------------------------------------------------------------------------

InitFire ==
  /\ allowed_cwd_roots = {}
  /\ manifests \in [Ids -> StoredInputs]
  /\ \A i \in Ids : manifests[i].id = i
  /\ dirs = Ids
  /\ lockHolder = NoTask
  /\ stopReq = {}
  /\ sentCmd = {}
  /\ \E running \in BOOLEAN :
       IF running
       THEN /\ pidfile = [i \in Ids |-> 1]
            /\ runtime = [i \in Ids |-> 1]
            /\ alive = {1}
            /\ owner = [p \in AllPids |->
                         IF p = 1
                         THEN [id |-> SvcA,
                               command |-> manifests[SvcA].command]
                         ELSE NoOwner]
            /\ nextPid = 2
            /\ tasks = [t \in Tasks |->
                         IF t \in ApiTasks THEN IdleTask
                         ELSE IF t = Waiter(1)
                         THEN [IdleTask EXCEPT !.pc = "w_wait",
                                 !.op = "wait", !.id = SvcA, !.pid = 1,
                                 !.m = manifests[SvcA]]
                         ELSE OffTask]
       ELSE /\ pidfile = [i \in Ids |-> 0]
            /\ runtime = [i \in Ids |-> 0]
            /\ alive = {}
            /\ owner = [p \in AllPids |-> NoOwner]
            /\ nextPid = 1
            /\ tasks = [t \in Tasks |->
                         IF t \in ApiTasks THEN IdleTask ELSE OffTask]
  /\ calls = 2
  /\ callers = {<<"api", "a">>}
  /\ UserInit
  /\ ExtInit
  /\ scheduler = TRUE
  /\ jobs = [i \in Ids |-> 1]
  /\ \E action \in ScheduleActions :
       timers = {[uuid |-> 1, sid |-> SvcA, action |-> action]}
  /\ nextJob = 2
  /\ stasks = [t \in SchedTasks |-> IdleSchedTask]
  /\ scalls = MaxSchedCalls - 1
  /\ lastUpsert = [i \in Ids |-> [ok |-> TRUE, failed |-> FALSE]]

NextFire ==
  \/ \E t \in SeqSchedTasks, id \in Ids :
       SchedCall(t, "remove_schedule", id, NoSchedule)
  \/ \E t \in SeqSchedTasks : RemoveTake(t)
  \/ \E t \in SeqSchedTasks : RemoveTimer(t)
  \/ \E t \in ApiTasks, j \in timers : Fire(t, j)
  \/ \E t \in ApiTasks : JobCheck(t)
  \/ \E t \in ApiTasks : Return(t)
  \/ \E t \in Tasks : StatusRegistry(t)
  \/ \E t \in Tasks : StatusPidfile(t)
  \/ \E t \in Tasks : StatusStale(t)
  \/ \E t \in Tasks : StartLoad(t)
  \/ \E t \in Tasks : StartSpawn(t)
  \/ \E t \in Tasks : StartInsert(t)
  \/ \E t \in Tasks : StartWritePid(t)
  \/ \E t \in Tasks : StartSettle(t)
  \/ \E t \in Tasks : StartFail(t)
  \/ \E p \in Pids : WaitExit(p)
  \/ \E p \in Pids : WaitRemovePid(p)
  \/ \E p \in Pids : WaitRemoveHandle(p)
  \/ \E p \in Pids : WaitRestart(p)
  \/ \E t \in ApiTasks : ShutdownLoad(t)
  \/ \E t \in ApiTasks : ShutdownCheck(t)
  \/ \E t \in ApiTasks : ShutdownFlag(t)
  \/ \E t \in ApiTasks : ShutdownSend(t)
  \/ \E t \in ApiTasks : KillLookup(t)
  \/ \E t \in ApiTasks : KillFlag(t)
  \/ \E t \in ApiTasks : KillRemoveHandle(t)
  \/ \E t \in ApiTasks : KillSignal(t)
  \/ \E t \in ApiTasks : KillWait(t)
  \/ \E t \in ApiTasks : KillRemovePid(t)
  \/ \E t \in ApiTasks : StopDispatch(t)
  \/ \E t \in ApiTasks : RestartCheck(t)
  \/ \E p \in AllPids : ProcessExit(p)

SpecFire == InitFire /\ [][NextFire]_vars

\* ------------------------------------------------------------------------
\* The supervisor under each cwd policy, with a stored service whose cwd
\* is unset, allowed, outside the allowed roots, or gone
\* ------------------------------------------------------------------------

InitCwd ==
  /\ allowed_cwd_roots \in CwdPolicies
  /\ manifests \in [Ids -> {m \in ManifestInputs :
                              /\ Basename(m.command) \in allowed_commands
                              /\ m.schedule = None
                              /\ m.group = None
                              /\ m.created_at = Some(0)
                              /\ m.clear_log_on_start}]
  /\ \A i \in Ids : manifests[i].id = i
  /\ dirs = Ids
  /\ pidfile = [i \in Ids |-> 0]
  /\ runtime = [i \in Ids |-> 0]
  /\ lockHolder = NoTask
  /\ stopReq = {}
  /\ sentCmd = {}
  /\ alive = {}
  /\ owner = [p \in AllPids |-> NoOwner]
  /\ nextPid = 1
  /\ tasks = [t \in Tasks |-> IF t \in ApiTasks THEN IdleTask ELSE OffTask]
  /\ calls = 1
  /\ callers = {<<"api", "a">>}
  /\ UserInit
  /\ ExtInit
  /\ SchedulerInit

SpecCwd == InitCwd /\ [][Next]_vars

\* ------------------------------------------------------------------------
\* A stored service whose log holds the output of an earlier run, with
\* clear_log_on_start set or not, a command and a cwd the policy may refuse
\* ------------------------------------------------------------------------

ClearInputs ==
  [id : Ids,
   command : Commands,
   shutdown_command : {NoVal},
   auto_restart : {FALSE},
   cwd : {NoCwd, CwdMissing},
   schedule : {None},
   group : {None},
   created_at : {Some(0)},
   clear_log_on_start : BOOLEAN]

InitClear ==
  /\ allowed_cwd_roots = {}
  /\ manifests \in [Ids -> ClearInputs]
  /\ \A i \in Ids : manifests[i].id = i
  /\ dirs = Ids
  /\ pidfile = [i \in Ids |-> 0]
  /\ runtime = [i \in Ids |-> 0]
  /\ lockHolder = NoTask
  /\ stopReq = {}
  /\ sentCmd = {}
  /\ alive = {}
  /\ owner = [p \in AllPids |-> NoOwner]
  /\ nextPid = 1
  /\ tasks = [t \in Tasks |-> IF t \in ApiTasks THEN IdleTask ELSE OffTask]
  /\ calls = 1
  /\ callers = ApiTasks
  /\ UserInit
  /\ SchedulerInit
  /\ StoreInit
  /\ LogInit
  /\ RateInit
  /\ DirInit
  /\ logBytes = <<"a", Newline>>
  /\ session = NoSession

SpecClear == InitClear /\ [][Next]_vars

\* ------------------------------------------------------------------------
\* The manifest store behind its HTTP handlers: manifests arrive with a
\* schedule and a created_at, time passes between the calls
\* ------------------------------------------------------------------------

\* schedules sent by clients: none, one that parses, one that does not,
\* a disabled one that does not
StoreSchedules ==
  {None,
   Some([enabled |-> TRUE, cron |-> CronHourly, action |-> "Start"]),
   Some([enabled |-> TRUE, cron |-> CronBad, action |-> "Start"]),
   Some([enabled |-> FALSE, cron |-> CronBad, action |-> "Start"])}

\* manifests sent to the handlers
StoreInputs ==
  [id : Ids,
   command : Commands,
   shutdown_command : {NoVal},
   auto_restart : BOOLEAN,
   cwd : {NoCwd},
   schedule : StoreSchedules,
   group : {None},
   created_at : {None, Some(MaxClock)},
   clear_log_on_start : {TRUE}]

InitStore ==
  /\ ServiceInit
  /\ UserInit
  /\ SchedulerInit
  /\ ExtInit

NextStore ==
  \/ \E t \in ApiTasks, m \in StoreInputs : HandleCreate(t, m)
  \/ \E t \in ApiTasks, id \in Ids, m \in StoreInputs : HandleUpdate(t, id, m)
  \/ \E t \in ApiTasks, id \in Ids, m \in StoreInputs : UpdateService(t, id, m)
  \/ \E t \in ApiTasks, id \in Ids, sch \in StoreSchedules :
       HandleSchedule(t, id, sch)
  \/ \E t \in ApiTasks : ScheduleLoad(t)
  \/ \E t \in ApiTasks : ScheduleWrite(t)
  \/ \E t \in ApiTasks : SyncCall(t)
  \/ \E t \in ApiTasks : SyncDone(t)
  \/ \E t \in ApiTasks : Return(t)
  \/ \E s \in SchedTasks : RemoveTake(s)
  \/ \E s \in SchedTasks : RemoveTimer(s)
  \/ \E s \in SchedTasks : UpsertCheck(s)
  \/ \E s \in SchedTasks : UpsertAdd(s)
  \/ \E s \in SchedTasks : UpsertInsert(s)
  \/ Tick

SpecStore == InitStore /\ [][NextStore]_vars

\* ------------------------------------------------------------------------
\* The service API with its scheduler, one request at a time, on a stored
\* service with an hourly schedule whose task is registered and whose
\* process, started by an earlier API process, may still be alive
\* ------------------------------------------------------------------------

ApiStored ==
  [id |-> SvcA, command |-> CmdAllowed, shutdown_command |-> NoVal,
   auto_restart |-> FALSE, cwd |-> NoCwd,
   schedule |-> Some([enabled |-> TRUE, cron |-> CronHourly,
                      action |-> "Start"]),
   group |-> None, created_at |-> Some(0), clear_log_on_start |-> TRUE]

InitApi ==
  /\ allowed_cwd_roots = {}
  /\ manifests = [i \in Ids |-> ApiStored]
  /\ dirs = Ids
  /\ pidfile = [i \in Ids |-> AdoptedPid]
  /\ runtime = [i \in Ids |-> 0]
  /\ lockHolder = NoTask
  /\ stopReq = {}
  /\ sentCmd = {}
  /\ alive = {AdoptedPid}
  /\ owner = [p \in AllPids |->
               IF p = AdoptedPid
               THEN [id |-> SvcA, command |-> CmdAllowed]
               ELSE NoOwner]
  /\ nextPid = 1
  /\ tasks = [t \in Tasks |-> IF t \in ApiTasks THEN IdleTask ELSE OffTask]
  /\ calls = 0
  /\ callers = {<<"api", "a">>}
  /\ UserInit
  /\ ExtInit
  /\ scheduler = TRUE
  /\ jobs = [i \in Ids |-> 1]
  /\ timers = {[uuid |-> 1, sid |-> SvcA, action |-> "Start"]}
  /\ nextJob = 2
  /\ stasks = [t \in SchedTasks |-> IdleSchedTask]
  /\ scalls = 0
  /\ lastUpsert = [i \in Ids |-> [ok |-> TRUE, failed |-> FALSE]]

NextApi ==
  \/ \E t \in ApiTasks, m \in StoreInputs : HandleCreate(t, m)
  \/ \E t \in ApiTasks, id \in Ids, m \in StoreInputs : HandleUpdate(t, id, m)
  \/ \E t \in ApiTasks, id \in Ids, sch \in StoreSchedules :
       HandleSchedule(t, id, sch)
  \/ \E t \in ApiTasks, id \in Ids : HandleDelete(t, id)
  \/ \E t \in ApiTasks : HandleDeleteService(t)
  \/ \E t \in ApiTasks : StatusRegistry(t)
  \/ \E t \in ApiTasks : StatusPidfile(t)
  \/ \E t \in ApiTasks : StatusStale(t)
  \/ \E t \in ApiTasks : DeleteService(t)
  \/ \E t \in ApiTasks : ScheduleLoad(t)
  \/ \E t \in ApiTasks : ScheduleWrite(t)
  \/ \E t \in ApiTasks : SyncCall(t)
  \/ \E t \in ApiTasks : SyncDone(t)
  \/ \E t \in ApiTasks : Return(t)
  \/ \E s \in SchedTasks : RemoveTake(s)
  \/ \E s \in SchedTasks : RemoveTimer(s)
  \/ \E s \in SchedTasks : UpsertCheck(s)
  \/ \E s \in SchedTasks : UpsertAdd(s)
  \/ \E s \in SchedTasks : UpsertInsert(s)
  \/ \E p \in AllPids : ProcessExit(p)

SpecApi == InitApi /\ [][NextApi]_vars

\* ------------------------------------------------------------------------
\* One running instance, its output worker and one log stream
\* ------------------------------------------------------------------------

\* the state after start(s1) returned Ok: instance 1 runs, is registered
\* and has its pidfile and its waiter
RunningInit ==
  /\ allowed_cwd_roots = {}
  /\ manifests \in [Ids -> StoredInputs]
  /\ \A i \in Ids : manifests[i].id = i
  /\ dirs = Ids
  /\ lockHolder = NoTask
  /\ stopReq = {}
  /\ sentCmd = {}
  /\ pidfile = [i \in Ids |-> 1]
  /\ runtime = [i \in Ids |-> 1]
  /\ alive = {1}
  /\ owner = [p \in AllPids |->
               IF p = 1
               THEN [id |-> SvcA, command |-> manifests[SvcA].command]
               ELSE NoOwner]
  /\ nextPid = 2
  /\ tasks = [t \in Tasks |->
               IF t \in ApiTasks THEN IdleTask
               ELSE IF t = Waiter(1)
               THEN [IdleTask EXCEPT !.pc = "w_wait", !.op = "wait",
                                     !.id = SvcA, !.pid = 1,
                                     !.m = manifests[SvcA]]
               ELSE OffTask]

InitLog ==
  /\ RunningInit
  /\ calls = 0
  /\ callers = {<<"api", "a">>}
  /\ UserInit
  /\ SchedulerInit
  /\ StoreInit
  /\ RateInit
  /\ DirInit
  /\ FileInit
  /\ worker = [pc |-> "read", cur |-> 0, read |-> 0]
  /\ sent = <<>>
  /\ logfile = <<>>
  /\ rx = NoStream

NextLog ==
  \/ OutputRead
  \/ OutputSend
  \/ OutputAppend
  \/ \E id \in Ids : FollowLogsRaw(id)
  \/ StreamRecv

SpecLog == InitLog /\ [][NextLog]_vars

\* the worker of a running instance and one attach session
NextAttach ==
  \/ OutputRead
  \/ OutputSend
  \/ OutputAppend
  \/ \E id \in Ids : AttachSubscribe(id)
  \/ SocketReplay

SpecAttach == InitLog /\ [][NextAttach]_vars

\* ------------------------------------------------------------------------
\* Groups: two stored services, each in a group or in none, two callers
\* ------------------------------------------------------------------------

\* the services of this configuration
GroupSvcs == {SvcA, SvcB}

\* manifests stored or sent by update_service
GroupInputs ==
  [id : GroupSvcs,
   command : {CmdAllowed},
   shutdown_command : {NoVal},
   auto_restart : BOOLEAN,
   cwd : {NoCwd},
   schedule : {None},
   group : {None, Some(GroupOne), Some(GroupTwo)},
   created_at : {Some(0)},
   clear_log_on_start : {TRUE}]

InitGroups ==
  /\ allowed_cwd_roots = {}
  /\ manifests \in [GroupSvcs -> GroupInputs]
  /\ \A i \in GroupSvcs : manifests[i].id = i
  /\ dirs = GroupSvcs
  /\ pidfile = [i \in GroupSvcs |-> 0]
  /\ runtime = [i \in GroupSvcs |-> 0]
  /\ lockHolder = NoTask
  /\ stopReq = {}
  /\ sentCmd = {}
  /\ alive = {}
  /\ owner = [p \in AllPids |-> NoOwner]
  /\ nextPid = 1
  /\ tasks = [t \in Tasks |-> IF t \in ApiTasks THEN IdleTask ELSE OffTask]
  /\ calls = 1
  /\ callers = ApiTasks
  /\ UserInit
  /\ SchedulerInit
  /\ LogInit
  /\ RateInit
  /\ DirInit
  /\ FileInit
  /\ groups \in {<<>>, <<[id |-> GroupOne, order |-> 0]>>}
  /\ clock = 0

NextGroups ==
  \/ \E t \in ApiTasks, g \in GroupIds : GroupCall(t, "create_group", g)
  \/ \E t \in ApiTasks, g \in GroupIds : GroupCall(t, "delete_group", g)
  \/ \E t \in ApiTasks : CreateGroupSave(t)
  \/ \E t \in ApiTasks : DeleteGroupSave(t)
  \/ \E t \in ApiTasks : DeleteGroupList(t)
  \/ \E t \in ApiTasks, i \in GroupSvcs : DeleteGroupLoad(t, i)
  \/ \E t \in ApiTasks : DeleteGroupWrite(t)
  \/ \E t \in ApiTasks, id \in GroupSvcs, m \in GroupInputs :
       UpdateService(t, id, m)
  \/ \E t \in ApiTasks : Return(t)

SpecGroups == InitGroups /\ [][NextGroups]_vars

\* ------------------------------------------------------------------------
\* The rate limiter under two concurrent requests
\* ------------------------------------------------------------------------

\* ------------------------------------------------------------------------
\* The end of main: one service runs as instance 1 of this supervisor, the
\* other is stopped or runs as a process known from its pidfile only; the
\* scheduler holds a job
\* ------------------------------------------------------------------------

\* main.rs 224-230: when stop_all_services has returned, Ok or Err, main
\* calls scheduler.shutdown()
MainSchedulerShutdown(s) ==
  /\ tasks[MainTask].pc = "done"
  /\ tasks[MainTask].op = "stop_all_services"
  /\ \A o \in SchedTasks : stasks[o].op # "shutdown"
  /\ SchedCall(s, "shutdown", NoId, NoSchedule)

ShutdownInputs ==
  [id : GroupSvcs,
   command : {CmdAllowed},
   shutdown_command : {NoVal, "stop"},
   auto_restart : BOOLEAN,
   cwd : {NoCwd},
   schedule : {None},
   group : {None},
   created_at : {Some(0)},
   clear_log_on_start : {TRUE}]

InitShutdown ==
  /\ allowed_cwd_roots = {}
  /\ manifests \in [GroupSvcs -> ShutdownInputs]
  /\ \A i \in GroupSvcs : manifests[i].id = i
  /\ ~manifests[SvcB].auto_restart
  /\ dirs = GroupSvcs
  /\ lockHolder = NoTask
  /\ stopReq = {}
  /\ sentCmd = {}
  /\ \E adopted \in BOOLEAN :
       /\ pidfile = [i \in GroupSvcs |->
                       IF i = SvcA THEN 1
                       ELSE IF adopted THEN AdoptedPid ELSE 0]
       /\ alive = IF adopted THEN {1, AdoptedPid} ELSE {1}
       /\ owner = [p \in AllPids |->
                    IF p = 1
                    THEN [id |-> SvcA, command |-> manifests[SvcA].command]
                    ELSE IF p = AdoptedPid /\ adopted
                    THEN [id |-> SvcB, command |-> manifests[SvcB].command]
                    ELSE NoOwner]
  /\ runtime = [i \in GroupSvcs |-> IF i = SvcA THEN 1 ELSE 0]
  /\ nextPid = 2
  /\ tasks = [t \in Tasks |->
               IF t \in ApiTasks THEN IdleTask
               ELSE IF t = Waiter(1)
               THEN [IdleTask EXCEPT !.pc = "w_wait", !.op = "wait",
                                     !.id = SvcA, !.pid = 1,
                                     !.m = manifests[SvcA]]
               ELSE OffTask]
  /\ calls = 0
  /\ callers = {MainTask}
  /\ UserInit
  /\ ExtInit
  /\ scheduler = TRUE
  /\ jobs = [i \in Ids |-> 1]
  /\ timers = {[uuid |-> 1, sid |-> SvcA, action |-> "restart"]}
  /\ nextJob = 2
  /\ stasks = [t \in SchedTasks |-> IdleSchedTask]
  /\ scalls = 0
  /\ lastUpsert = [i \in Ids |-> [ok |-> TRUE, failed |-> FALSE]]

NextShutdown ==
  \/ \E t \in ApiTasks : StopAllCall(t)
  \/ \E t \in ApiTasks : ListDir(t)
  \/ \E t \in ApiTasks, i \in GroupSvcs : ListItem(t, i)
  \/ \E t \in ApiTasks : ListSummary(t)
  \/ \E t \in ApiTasks : StopAllListed(t)
  \/ \E t \in ApiTasks : StopAllNext(t)
  \/ \E t \in ApiTasks : StopAllSleep(t)
  \/ \E s \in SeqSchedTasks : MainSchedulerShutdown(s)
  \/ \E s \in SchedTasks : SchedulerShutdown(s)
  \/ \E s \in SchedTasks : SchedulerClear(s)
  \/ \E t \in Tasks : StatusRegistry(t)
  \/ \E t \in Tasks : StatusPidfile(t)
  \/ \E t \in Tasks : StatusStale(t)
  \/ \E t \in Tasks : StartLoad(t)
  \/ \E t \in Tasks : StartSpawn(t)
  \/ \E t \in Tasks : StartInsert(t)
  \/ \E t \in Tasks : StartWritePid(t)
  \/ \E t \in Tasks : StartSettle(t)
  \/ \E t \in Tasks : StartFail(t)
  \/ \E p \in Pids : WaitExit(p)
  \/ \E p \in Pids : WaitRemovePid(p)
  \/ \E p \in Pids : WaitRemoveHandle(p)
  \/ \E p \in Pids : WaitRestart(p)
  \/ \E t \in ApiTasks : StopDispatch(t)
  \/ \E t \in ApiTasks : ShutdownLoad(t)
  \/ \E t \in ApiTasks : ShutdownCheck(t)
  \/ \E t \in ApiTasks : ShutdownFlag(t)
  \/ \E t \in ApiTasks : ShutdownSend(t)
  \/ \E t \in ApiTasks : KillLookup(t)
  \/ \E t \in ApiTasks : KillFlag(t)
  \/ \E t \in ApiTasks : KillRemoveHandle(t)
  \/ \E t \in ApiTasks : KillSignal(t)
  \/ \E t \in ApiTasks : KillWait(t)
  \/ \E t \in ApiTasks : KillRemovePid(t)
  \/ \E p \in AllPids : ProcessExit(p)
  \/ Tick

SpecShutdown == InitShutdown /\ [][NextShutdown]_vars

NextDir ==
  \/ \E t \in DirTasks, n \in Usernames : CreateUserFind(t, n)
  \/ \E t \in DirTasks : CreateUserPersist(t)
  \/ \E t \in DirTasks : CreateUserLoadIndex(t)
  \/ \E t \in DirTasks : CreateUserSaveIndex(t)

SpecDir == Init /\ [][NextDir]_vars

NextRate ==
  \/ \E t \in RateTasks, key \in RateKeys : AllowCall(t, key)
  \/ \E t \in RateTasks : AllowLocked(t)
  \/ Tick

SpecRate == Init /\ [][NextRate]_vars

\* ------------------------------------------------------------------------
\* The log file under the output worker: append and truncate
\* ------------------------------------------------------------------------

\* LOG_RETAIN_SIZE, and LOG_MAX_SIZE at twice that size as in the source
LOG_RETAIN_SIZE == 3
LOG_MAX_SIZE == 2 * LOG_RETAIN_SIZE

\* how far the file may outgrow LOG_MAX_SIZE between two size checks
MaxOvershoot == 2

\* b"[... log truncated ...]\n": the text stands as one element
Sentinel == <<"[... log truncated ...]", Newline>>

\* retained.iter().position(|&b| b == b'\n')
RECURSIVE position(_, _)
position(retained, i) ==
  IF i > Len(retained) THEN 0
  ELSE IF retained[i] = Newline THEN i
  ELSE position(retained, i + 1)

\* .map(|i| i + 1).unwrap_or(0), as the number of bytes skipped
line_start(retained) == position(retained, 1)

\* truncate_log_file(path, retain_size) on a file holding content
truncate_log_file(content, retain_size) ==
  IF Len(content) <= retain_size THEN content
  ELSE LET start_pos == Len(content) - retain_size
           retained == SubSeq(content, start_pos + 1, Len(content))
       IN Sentinel \o SubSeq(retained, line_start(retained) + 1,
                             Len(retained))

\* log_file.write_all(&buf[..n]) of the output worker, a byte at a time
WriteLog(b) ==
  /\ Len(logBytes) < LOG_MAX_SIZE + MaxOvershoot
  /\ logBytes' = Append(logBytes, b)
  /\ UNCHANGED <<session, svcVars, usrVars, schVars, stoVars, logVars,
                 rlVars, dirVars>>

\* the size check of the output worker: a file above LOG_MAX_SIZE is
\* truncated to LOG_RETAIN_SIZE
CheckLogSize ==
  /\ Len(logBytes) > LOG_MAX_SIZE
  /\ logBytes' = truncate_log_file(logBytes, LOG_RETAIN_SIZE)
  /\ UNCHANGED <<session, svcVars, usrVars, schVars, stoVars, logVars,
                 rlVars, dirVars>>

NextFile ==
  \/ \E b \in Bytes : WriteLog(b)
  \/ CheckLogSize

SpecFile == Init /\ [][NextFile]_vars

\* ------------------------------------------------------------------------
\* Properties of the supervisor
\* ------------------------------------------------------------------------

\* C1: whenever status(id) would report Running, the pidfile of id exists
\* and the pid it holds is alive, at every point of start, kill, shutdown
\* and the waiter
C1_RunningHasLivePidfile ==
  \A id \in Ids :
    StatusOf(id) = "Running" =>
      pidfile[id] # 0 /\ process_alive(pidfile[id])

\* C2: however start and restart calls on one id interleave, at most one
\* process is running for the id at any time
C2_OneInstancePerService ==
  \A id \in Ids : Cardinality({p \in alive : owner[p].id = id}) <= 1

\* C3: once start(id) has returned Ok for process p, status(id) does not
\* answer Stopped while p is alive
C3_StartedIsNotStopped ==
  \A p \in startedOk :
    process_alive(p) => StatusOf(owner[p].id) # "Stopped"

C11_RestartYieldsNewInstance ==
  [][\A t \in ApiTasks :
       (/\ tasks[t].op = "restart"
        /\ tasks[t].pc = "start_settle"
        /\ tasks'[t].pc = "done"
        /\ tasks'[t].res = "Ok_Running")
         => LET id == tasks[t].id
                p == tasks[t].pid
            IN /\ runtime'[id] = p
               /\ pidfile'[id] = p
               /\ {q \in alive' : owner'[q].id = id} = {p}]_vars

\* C12: when kill(id) returns Ok(Stopped) the registry has no entry for
\* id, the pidfile is absent and the pid that was killed is not alive; kill
\* with neither registry entry nor pidfile returns NotRunning
C12_KillLeavesStopped ==
  [][\A t \in ApiTasks :
       /\ (tasks[t].pc = "kill_rmpid" /\ tasks'[t].pc # "kill_rmpid")
            => LET id == tasks[t].id IN
                 /\ runtime'[id] = 0
                 /\ pidfile'[id] = 0
                 /\ ~process_alive(tasks[t].pid)'
       /\ (/\ tasks[t].pc = "kill_get"
           /\ tasks'[t].pc # "kill_get"
           /\ runtime[tasks[t].id] = 0
           /\ pidfile[tasks[t].id] = 0)
            => tasks'[t].res = "NotRunning"]_vars

\* C13: shutdown(id) on a service whose status is Running, through the
\* registry or through the pidfile only, returns Ok Running with the
\* stop_requested flag of that instance set and the shutdown command
\* delivered to its input, registry and pidfile left as they are; on a
\* service that is not Running it returns NotRunning and neither flags nor
\* sends anything
C13_ShutdownFlagsAndSends ==
  [][\A t \in ApiTasks :
       tasks[t].op = "shutdown" =>
         /\ (tasks[t].pc = "shut_send" /\ tasks'[t].pc = "done")
              => /\ tasks'[t].res = "Ok_Running"
                 /\ tasks[t].pid \in stopReq'
                 /\ tasks[t].pid \in sentCmd'
                 /\ runtime' = runtime
                 /\ pidfile' = pidfile
         /\ (tasks[t].pc = "shut_chk" /\ tasks'[t].pc = "done")
              => /\ tasks'[t].res = "NotRunning"
                 /\ stopReq' = stopReq
                 /\ sentCmd' = sentCmd
                 /\ runtime' = runtime
                 /\ pidfile' = pidfile]_vars

\* C14: attach(id) returns NotRunning when the status it read is not
\* Running; otherwise it returns the handle of the registry entry of id when
\* there is one and Other when there is none (the service is known through
\* the pidfile only); no step of attach changes the registry, and none
\* changes the pidfile unless the pid it names is dead
C14_AttachNeedsLocalHandle ==
  [][\A t \in ApiTasks :
       (tasks[t].op = "attach" /\ tasks'[t] # tasks[t]) =>
         LET id == tasks[t].id IN
           /\ (tasks[t].pc = "attach_chk" /\ tasks[t].st # "Running")
                => tasks'[t].pc = "done" /\ tasks'[t].res = "NotRunning"
           /\ (tasks[t].pc = "attach_chk" /\ tasks[t].st = "Running")
                => tasks'[t].pc = "attach_get"
           /\ (tasks[t].pc = "attach_get" /\ runtime[id] # 0)
                => /\ tasks'[t].res = "Ok_Attached"
                   /\ tasks'[t].pid = runtime[id]
           /\ (tasks[t].pc = "attach_get" /\ runtime[id] = 0)
                => tasks'[t].res = "Other"
           /\ tasks'[t].res = "Ok_Attached" => tasks[t].st = "Running"
           /\ runtime' = runtime
           /\ pidfile' # pidfile => ~process_alive(pidfile[id])]_vars

\* C15: status(id) answers Running when the registry entry of id has a live
\* pid, or when there is no live entry and the pidfile names a live pid, and
\* Stopped otherwise; an entry whose pid is dead is dropped and the call goes
\* on to the pidfile, a pidfile that names a dead pid is deleted, and the
\* call always returns Ok
C15_StatusDerivesState ==
  [][\A t \in ApiTasks :
       (tasks[t].op = "status" /\ tasks'[t] # tasks[t]) =>
         LET id == tasks[t].id
             pc == tasks[t].pc
         IN /\ (pc = "st_reg" /\ runtime[id] # 0
                               /\ process_alive(runtime[id]))
                 => tasks'[t].res = "Ok_Running"
            /\ (pc = "st_reg" /\ runtime[id] # 0
                               /\ ~process_alive(runtime[id]))
                 => runtime'[id] = 0 /\ tasks'[t].pc = "st_pid"
            /\ (pc = "st_reg" /\ runtime[id] = 0)
                 => tasks'[t].pc = "st_pid"
            /\ (pc = "st_pid" /\ pidfile[id] # 0
                               /\ process_alive(pidfile[id]))
                 => tasks'[t].res = "Ok_Running"
            /\ (pc = "st_pid" /\ pidfile[id] = 0)
                 => tasks'[t].res = "Ok_Stopped"
            /\ pc = "st_stale"
                 => pidfile'[id] = 0 /\ tasks'[t].res = "Ok_Stopped"
            /\ tasks'[t].pc = "done"
                 => tasks'[t].res \in {"Ok_Running", "Ok_Stopped"}]_vars

\* C16: when start(id) finds its child exited after the settle period it
\* returns SpawnFailed, and at that return the pidfile of id is absent, the
\* registry has no entry for id and the attempt has no waiter (so nothing
\* restarts it)
C16_EarlyExitLeavesNothing ==
  [][\A t \in ApiTasks :
       (tasks[t].pc = "start_fail" /\ tasks'[t].pc # "start_fail") =>
         LET id == tasks[t].id IN
           /\ tasks'[t].res = "SpawnFailed"
           /\ pidfile'[id] = 0
           /\ runtime'[id] = 0
           /\ tasks'[Waiter(tasks[t].pid)].pc = "off"]_vars

\* C17: start(id) of a stopped service whose manifest names a cwd that does
\* not exist returns SpawnFailed under every cwd policy, and leaves no
\* pidfile and no registry entry
C17_MissingCwdIsSpawnFailed ==
  [][\A t \in ApiTasks :
       (/\ tasks[t].op = "start"
        /\ tasks[t].pc = "start_chk"
        /\ tasks'[t].pc # "start_chk"
        /\ tasks[t].st # "Running"
        /\ tasks[t].m.cwd # NoCwd
        /\ tasks[t].m.cwd \notin ExistingDirs)
         => /\ tasks'[t].res = "SpawnFailed"
            /\ pidfile'[tasks[t].id] = 0
            /\ runtime'[tasks[t].id] = 0]_vars

\* C18: once every upsert_schedule and remove_schedule call has returned,
\* the jobs in the JobScheduler that act on a service id are exactly the
\* job the id -> job map records for it: one at most, and none that the map
\* does not reference
C18_OneTimerPerService ==
  (\A t \in SchedTasks : stasks[t].pc \in {"idle", "done"}) =>
    \A id \in Ids :
      {j.uuid : j \in {k \in timers : k.sid = id}} =
        IF jobs[id] # 0 THEN {jobs[id]} ELSE {}

\* C19 as stated: with one caller, list_schedules holds id exactly when the
\* last upsert_schedule that returned Ok asked for a timer (enabled, cron
\* non-empty and valid) and no remove_schedule(id) or shutdown followed
C19_AsStated ==
  [][\A t \in SeqSchedTasks :
       (stasks'[t].op = "list_schedules" /\ scalls' # scalls)
         => stasks'[t].listed = {i \in Ids : lastUpsert[i].ok}]_vars

\* C19: with one caller, list_schedules holds id exactly when the last
\* upsert_schedule that returned Ok asked for a timer and neither a
\* remove_schedule(id), nor a shutdown, nor an upsert_schedule that returned
\* an error followed it; remove_schedule on an id without a task returns Ok
\* and changes nothing
C19_ListFollowsLastUpsert ==
  [][\A t \in SeqSchedTasks :
       /\ (stasks'[t].op = "list_schedules" /\ scalls' # scalls)
            => stasks'[t].listed =
                 {i \in Ids : lastUpsert[i].ok /\ ~lastUpsert[i].failed}
       /\ (/\ stasks[t].op = "remove_schedule"
           /\ stasks[t].pc = "rm_take"
           /\ jobs[stasks[t].id] = 0)
            => /\ stasks'[t].pc = "done"
               /\ stasks'[t].res = "Ok"
               /\ jobs' = jobs
               /\ timers' = timers
               /\ scheduler' = scheduler]_vars

\* a schedule was installed, an upsert with a cron that does not parse
\* failed, and list_schedules has answered without the id
C19_Witness ==
  \E t \in SeqSchedTasks, i \in Ids :
    /\ stasks[t].op = "list_schedules"
    /\ stasks[t].pc = "done"
    /\ lastUpsert[i].ok
    /\ lastUpsert[i].failed
    /\ i \notin stasks[t].listed

\* C20: a fired Start job goes on to start(id) only when the status it read
\* is Stopped and a fired Stop job goes on to stop(id) only when it is
\* Running, otherwise the run ends without a lifecycle call; a fired Restart
\* job enters restart(id) whatever the state; and no step of a job, the one
\* that ends it with an error included, takes a job out of the JobScheduler
C20_JobsRespectStatus ==
  [][\A t \in ApiTasks :
       (tasks'[t] # tasks[t]) =>
         /\ (tasks[t].op = "job_start" /\ tasks[t].pc = "job_chk")
              => IF tasks[t].st = "Stopped"
                 THEN tasks'[t].pc = "start_load"
                 ELSE tasks'[t].pc = "done" /\ tasks'[t].res = "Skipped"
         /\ (tasks[t].op = "job_stop" /\ tasks[t].pc = "job_chk")
              => IF tasks[t].st = "Running"
                 THEN tasks'[t].pc = "stop_load"
                 ELSE tasks'[t].pc = "done" /\ tasks'[t].res = "Skipped"
         /\ (tasks[t].op = "job_start" /\ tasks'[t].pc = "start_load")
              => tasks[t].pc = "job_chk" /\ tasks[t].st = "Stopped"
         /\ (tasks[t].op = "job_stop" /\ tasks'[t].pc = "stop_load")
              => tasks[t].pc = "job_chk" /\ tasks[t].st = "Running"
         /\ (tasks[t].pc = "idle" /\ tasks'[t].op = "restart")
              => tasks'[t].pc = "st_reg" /\ tasks'[t].ret = "restart_chk"
         /\ tasks[t].pc # "idle" => timers' = timers]_vars

\* a Start job has ended with SpawnFailed and the JobScheduler still holds it
C20_Witness ==
  \E t \in ApiTasks :
    /\ tasks[t].op = "job_start"
    /\ tasks[t].pc = "done"
    /\ tasks[t].res = "SpawnFailed"
    /\ \E j \in timers : j.sid = tasks[t].id /\ j.action = "Start"

\* C21: every stored manifest whose schedule is enabled with a non-empty
\* cron has a cron that parses, whichever handler wrote it.
C21_StoredSchedulesParse ==
  \A id \in Ids :
    (/\ manifests[id] # NoManifest
     /\ manifests[id].schedule # None
     /\ manifests[id].schedule[1].enabled
     /\ manifests[id].schedule[1].cron # CronEmpty)
    => validate_cron(manifests[id].schedule[1].cron) = "Ok"

\* what a stream has to have yielded for the chunks `expected`: each of
\* them in order, a notice "dropped n" standing for n of them
RECURSIVE Covers(_, _)
Covers(got, expected) ==
  IF got = <<>> THEN expected = <<>>
  ELSE IF Head(got)[1] = "chunk"
  THEN /\ expected # <<>>
       /\ Head(expected) = Head(got)[2]
       /\ Covers(Tail(got), Tail(expected))
  ELSE /\ Len(expected) >= Head(got)[2]
       /\ Covers(Tail(got),
                 SubSeq(expected, Head(got)[2] + 1, Len(expected)))

\* C22: a stream opened on a registered service yields, in order, exactly
\* the chunks appended to the log file after the subscription, the only
\* gaps being those of a "dropped N" notice; the worker is never blocked
\* by the stream.  Read when the stream has caught up and the worker holds
\* no chunk.
C22_StreamFollowsLog ==
  /\ (rx.open /\ rx.next = Len(sent) + 1 /\ worker.pc = "read")
     => Covers(rx.got, SubSeq(logfile, rx.since + 1, Len(logfile)))
  /\ worker.pc = "send" => ENABLED OutputSend

\* C23: a delete_group(g) that goes on to Ok removes g from the group list;
\* each of its manifest writes sets the group of one service that
\* referenced g to none and changes nothing else, in that manifest or in
\* any other; no service is deleted; with a g that the list it read does
\* not hold it answers NotFound and changes nothing.
C23_DeleteGroupDetachesOnly ==
  [][\A t \in ApiTasks :
       tasks[t].op = "delete_group" =>
         /\ dirs' = dirs
         /\ (tasks[t].pc = "dg_save" /\ tasks'[t].pc = "dg_list")
            => /\ tasks[t].id \notin GroupIdsOf(groups')
               /\ manifests' = manifests
         /\ (tasks[t].pc = "dg_save" /\ tasks'[t].pc = "done")
            => /\ tasks'[t].res = "NotFound"
               /\ tasks[t].id \notin GroupIdsOf(tasks[t].arg)
               /\ groups' = groups
               /\ manifests' = manifests
         /\ (/\ tasks[t].pc = "dg_write"
             /\ tasks'[t].pc # "dg_write"
             /\ tasks'[t].res \in {NoVal, "Ok"})
            => \A i \in DOMAIN manifests :
                 manifests'[i] =
                   IF i = tasks[t].m.id
                   THEN [manifests[i] EXCEPT !.group = None]
                   ELSE manifests[i]]_vars

\* the arrivals admitted for a key inside the window that begins at `from`
AdmittedIn(key, from) ==
  {i \in 1..Len(admitted[key]) :
     admitted[key][i] >= from /\ admitted[key][i] < from + RateWindow}

\* C25: allow(key) admits and records the arrival exactly when fewer than
\* `limit` timestamps of the key remain inside the window; hence, across
\* the allow calls made, no key has more than `limit` admitted arrivals
\* within one window.
C25_AtMostLimitPerWindow ==
  \A key \in RateKeys, from \in Times :
    Cardinality(AdmittedIn(key, from)) <= RateLimit

\* C24: update_service(id, m) with m.created_at omitted stores m with the
\* created_at of the manifest that was stored before, every other field
\* being that of m.
C24_UpdateKeepsCreatedAt ==
  [][\A t \in ApiTasks :
       (/\ tasks[t].pc = "idle"
        /\ tasks'[t].op \in {"update_service", "update_handler"})
       => \A id \in Ids, m \in StoreInputs :
            (/\ UpdateService(t, id, m) \/ HandleUpdate(t, id, m)
             /\ UpdateResult(id, m) = "Ok"
             /\ m.created_at = None)
            => /\ manifests'[id].created_at = manifests[id].created_at
               /\ manifests'[id] =
                    [m EXCEPT !.created_at = manifests[id].created_at]]_vars

\* an update that omitted created_at has been stored over a manifest
\* created earlier: the stored created_at is the old one, the rest is new
C24_Witness ==
  \E t \in ApiTasks :
    /\ tasks[t].op = "update_handler"
    /\ tasks[t].pc = "sync"
    /\ tasks[t].m.created_at = None
    /\ tasks[t].m.auto_restart
    /\ clock = MaxClock
    /\ manifests[tasks[t].id] = [tasks[t].m EXCEPT !.created_at = Some(0)]

\* ------------------------------------------------------------------------
\* User store and token engine (UserManager)
\* ------------------------------------------------------------------------

\* bcrypt::hash: the salt is left out, the hash stands for its password
hash_password(pw) == <<"bcrypt", pw>>

\* bcrypt::verify
verify_password(pw, h) == h = hash_password(pw)

\* UserManager::validate_password_strength
validate_password_strength(pw) ==
  LET has_upper == \E i \in 1..Len(pw) : pw[i] \in UpperChars
      has_lower == \E i \in 1..Len(pw) : pw[i] \in LowerChars
      has_digit == \E i \in 1..Len(pw) : pw[i] \in DigitChars
      has_symbol == \E i \in 1..Len(pw) :
                      pw[i] \notin UpperChars \cup LowerChars \cup DigitChars
  IN IF Len(pw) < 8 THEN "PolicyViolation"
     ELSE IF ~(has_upper /\ has_lower /\ (has_digit \/ has_symbol))
     THEN "PolicyViolation"
     ELSE "Ok"

\* Vec::contains
Contains(list, x) == \E i \in 1..Len(list) : list[i] = x

\* Vec::retain(|id| id != x)
Without(list, x) == SelectSeq(list, LAMBDA e : e # x)

\* UserManager::find_by_username: the index, then the user file
find_by_username(username) ==
  IF UserIdOf(username) \in UserIds THEN users[UserIdOf(username)] ELSE NoUser

\* UserManager::get_user; NoUser stands for NotFound
get_user(id) == IF id \in UserIds THEN users[id] ELSE NoUser

\* the access token claims of issue_tokens, auth.rs 61-72
AccessClaims(id, user) ==
  [sub |-> id, token_type |-> "user", service_ids |-> user.service_ids,
   token_version |-> user.token_version, refresh_nonce |-> 0]

\* the refresh token claims of issue_tokens, auth.rs 75-86
RefreshClaims(id, user) ==
  [sub |-> id, token_type |-> "refresh", service_ids |-> <<>>,
   token_version |-> user.token_version,
   refresh_nonce |-> user.refresh_nonce]

\* jsonwebtoken::decode, auth.rs 115-120: the signature is one made with
\* jwt_secret
Signed == issued \cup SignedOutside

\* verify_token without the token_version comparison of auth.rs 131-133
verify_token_unversioned(tok) ==
  IF tok \notin Signed THEN "Unauthorized"
  ELSE IF tok.token_type = "dev" THEN "Unauthorized"
  ELSE IF get_user(tok.sub) = NoUser THEN "NotFound"
  ELSE IF tok.token_type = "refresh"
          /\ tok.refresh_nonce # get_user(tok.sub).refresh_nonce
  THEN "Unauthorized"
  ELSE "Ok"

\* verify_token without the token type test of auth.rs 125-129
verify_token_devpass(tok) ==
  IF tok \notin Signed THEN "Unauthorized"
  ELSE IF get_user(tok.sub) = NoUser THEN "NotFound"
  ELSE IF tok.token_version # get_user(tok.sub).token_version
  THEN "Unauthorized"
  ELSE IF tok.token_type = "refresh"
          /\ tok.refresh_nonce # get_user(tok.sub).refresh_nonce
  THEN "Unauthorized"
  ELSE "Ok"

\* UserManager::verify_token, auth.rs 111-147: signature, dev tokens, the
\* token version, the refresh nonce
verify_token(tok) ==
  IF tok \notin Signed THEN "Unauthorized"
  ELSE IF tok.token_type = "dev" THEN "Unauthorized"
  ELSE IF get_user(tok.sub) = NoUser THEN "NotFound"
  ELSE IF tok.token_version # get_user(tok.sub).token_version
  THEN "Unauthorized"
  ELSE IF tok.token_type = "refresh"
          /\ tok.refresh_nonce # get_user(tok.sub).refresh_nonce
  THEN "Unauthorized"
  ELSE "Ok"

\* update_user that applies the fields and leaves token_version alone
update_user_unbumped(user, password, sids) ==
  LET u1 == IF password # None
            THEN [user EXCEPT !.password_hash = hash_password(password[1])]
            ELSE user
      u2 == IF sids # None THEN [u1 EXCEPT !.service_ids = sids[1]] ELSE u1
  IN [user |-> u2, rotate |-> FALSE]

\* update_user, manager.rs 329-346: the record built from the loaded one
update_user_record(user, password, sids) ==
  LET bumped == password # None \/ sids # None
      u1 == IF password # None
            THEN [user EXCEPT !.password_hash = hash_password(password[1])]
            ELSE user
      u2 == IF sids # None THEN [u1 EXCEPT !.service_ids = sids[1]] ELSE u1
  IN [user |-> IF bumped
               THEN [u2 EXCEPT !.token_version = u2.token_version + 1]
               ELSE u2,
      rotate |-> bumped]

\* change_password, password.rs 72-78
change_password_record(user, new) ==
  [user |-> [user EXCEPT !.password_hash = hash_password(new),
                         !.token_version = user.token_version + 1],
   rotate |-> TRUE]

\* add_service_permission, permissions.rs 15-19 (the branch that persists)
add_permission_record(user, svc) ==
  [user |-> [user EXCEPT !.service_ids = Append(user.service_ids, svc),
                         !.token_version = user.token_version + 1],
   rotate |-> TRUE]

\* remove_service_permission, permissions.rs 28-31
remove_permission_record(user, svc) ==
  [user |-> [user EXCEPT !.service_ids = Without(user.service_ids, svc),
                         !.token_version = user.token_version + 1],
   rotate |-> TRUE]

SetUserTask(t, rec) == utasks' = [utasks EXCEPT ![t] = rec]

\* the call of task t ends with result r
UserDone(rec, r) == [rec EXCEPT !.pc = "done", !.res = r]

\* a new call on task t; the second task only carries calls that overlap a
\* call of the first, sequential calls all go through the first
UserCalled(t) ==
  /\ utasks[t].pc \in {"idle", "done"}
  /\ IF t = "x" THEN TRUE ELSE utasks["x"].pc \notin {"idle", "done"}
  /\ ucalls < MaxUserCalls
  /\ ucalls' = ucalls + 1

\* create_user, manager.rs 140-152: the username check, the password policy.
\* Every create_user draws a new uuid; the model has one, so a second call
\* waits while the first is between its check and its write.
CreateUser(t, username, pw, sids) ==
  /\ UserCalled(t)
  /\ \A o \in UserTasks :
       utasks[o].op = "create_user" => utasks[o].pc = "done"
  /\ LET call == [IdleUserTask EXCEPT !.op = "create_user",
                    !.id = UserIdOf(username), !.password = Some(pw)]
     IN IF find_by_username(username) # NoUser
        THEN SetUserTask(t, UserDone(call, "AlreadyExists"))
        ELSE IF validate_password_strength(pw) # "Ok"
        THEN SetUserTask(t, UserDone(call, "PolicyViolation"))
        ELSE SetUserTask(t, [call EXCEPT !.pc = "persist", !.rotate = TRUE,
               !.user = [NoUser EXCEPT !.password_hash = hash_password(pw),
                                       !.service_ids = sids]])
  /\ UNCHANGED <<users, issued, nextNonce, refreshed, svcVars, schVars, extVars>>

\* the calls login makes before it answers or goes on to issue_tokens,
\* auth.rs 15-21
LoginSteps(user) ==
  IF user = NoUser THEN <<"find_by_username">>
  ELSE <<"find_by_username", "verify_password">>

\* login, auth.rs 14-27: the user is loaded and the password verified
Login(t, username, pw) ==
  /\ UserCalled(t)
  /\ LET user == find_by_username(username)
         call == [IdleUserTask EXCEPT !.op = "login",
                    !.id = UserIdOf(username), !.password = Some(pw),
                    !.steps = LoginSteps(user)]
     IN IF user = NoUser
        THEN SetUserTask(t, UserDone(call, "Unauthorized"))
        ELSE IF ~verify_password(pw, user.password_hash)
        THEN SetUserTask(t, UserDone(call, "Unauthorized"))
        ELSE SetUserTask(t, [call EXCEPT !.pc = "issue", !.loaded = user])
  /\ UNCHANGED <<users, issued, nextNonce, refreshed, svcVars, schVars, extVars>>

\* refresh, auth.rs 36-40: verify_token, then the token type
Refresh(t, tok) ==
  /\ UserCalled(t)
  /\ LET call == [IdleUserTask EXCEPT !.op = "refresh", !.id = tok.sub,
                    !.tok = tok, !.late = tok \in refreshed]
     IN IF verify_token(tok) # "Ok"
        THEN SetUserTask(t, UserDone(call, verify_token(tok)))
        ELSE IF tok.token_type # "refresh"
        THEN SetUserTask(t, UserDone(call, "Unauthorized"))
        ELSE SetUserTask(t, [call EXCEPT !.pc = "refresh_load"])
  /\ UNCHANGED <<users, issued, nextNonce, refreshed, svcVars, schVars, extVars>>

\* refresh, auth.rs 43: the user is loaded again
RefreshLoad(t) ==
  /\ utasks[t].pc = "refresh_load"
  /\ LET user == get_user(utasks[t].id) IN
       IF user = NoUser
       THEN SetUserTask(t, UserDone(utasks[t], "NotFound"))
       ELSE SetUserTask(t, [utasks[t] EXCEPT !.pc = "issue", !.loaded = user])
  /\ UNCHANGED <<users, issued, nextNonce, refreshed, ucalls, svcVars,
                 schVars, extVars>>

\* issue_tokens(user, true), auth.rs 50-108: the nonce of the loaded record
\* is rotated, the record is written back, both tokens are signed
IssueTokens(t) ==
  /\ utasks[t].pc = "issue"
  /\ LET id == utasks[t].id
         user == [utasks[t].loaded EXCEPT !.refresh_nonce = nextNonce]
     IN /\ users' = [users EXCEPT ![id] = user]
        /\ issued' = issued \cup {AccessClaims(id, user),
                                  RefreshClaims(id, user)}
        /\ SetUserTask(t, UserDone([utasks[t] EXCEPT !.user = user], "Ok"))
  /\ nextNonce' = nextNonce + 1
  /\ refreshed' = IF utasks[t].op = "refresh"
                  THEN refreshed \cup {utasks[t].tok} ELSE refreshed
  /\ UNCHANGED <<ucalls, svcVars, schVars, extVars>>

\* verify_token as called by the auth middleware
VerifyToken(t, tok) ==
  /\ UserCalled(t)
  /\ SetUserTask(t, UserDone([IdleUserTask EXCEPT !.op = "verify_token",
                                !.id = tok.sub, !.tok = tok],
                             verify_token(tok)))
  /\ UNCHANGED <<users, issued, nextNonce, refreshed, svcVars, schVars, extVars>>

\* update_user, manager.rs 319-348, up to the record that will be written
UpdateUser(t, id, password, sids) ==
  /\ UserCalled(t)
  /\ LET call == [IdleUserTask EXCEPT !.op = "update_user", !.id = id,
                    !.password = password, !.sids = sids]
         user == get_user(id)
         new == update_user_record(user, password, sids)
     IN IF id = "__devtoken__"
        THEN SetUserTask(t, UserDone(call, "PolicyViolation"))
        ELSE IF user = NoUser
        THEN SetUserTask(t, UserDone(call, "NotFound"))
        ELSE IF password # None
                /\ validate_password_strength(password[1]) # "Ok"
        THEN SetUserTask(t, UserDone([call EXCEPT !.loaded = user],
                                     "PolicyViolation"))
        ELSE SetUserTask(t, [call EXCEPT !.pc = "persist", !.loaded = user,
                               !.user = new.user, !.rotate = new.rotate])
  /\ UNCHANGED <<users, issued, nextNonce, refreshed, svcVars, schVars, extVars>>

\* change_password, password.rs 43-75, up to the record that will be written
ChangePassword(t, id, current, new, force) ==
  /\ UserCalled(t)
  /\ LET call == [IdleUserTask EXCEPT !.op = "change_password", !.id = id,
                    !.password = Some(new)]
         user == get_user(id)
         rec == change_password_record(user, new)
     IN IF user = NoUser
        THEN SetUserTask(t, UserDone(call, "NotFound"))
        ELSE IF validate_password_strength(new) # "Ok"
        THEN SetUserTask(t, UserDone([call EXCEPT !.loaded = user],
                                     "PolicyViolation"))
        ELSE IF ~force /\ current = None
        THEN SetUserTask(t, UserDone([call EXCEPT !.loaded = user],
                                     "Unauthorized"))
        ELSE IF ~force /\ ~verify_password(current[1], user.password_hash)
        THEN SetUserTask(t, UserDone([call EXCEPT !.loaded = user],
                                     "Unauthorized"))
        ELSE SetUserTask(t, [call EXCEPT !.pc = "persist", !.loaded = user,
                               !.user = rec.user, !.rotate = rec.rotate])
  /\ UNCHANGED <<users, issued, nextNonce, refreshed, svcVars, schVars, extVars>>

\* add_service_permission, permissions.rs 12-23
AddServicePermission(t, id, svc) ==
  /\ UserCalled(t)
  /\ LET call == [IdleUserTask EXCEPT !.op = "add_service_permission",
                    !.id = id, !.svc = svc]
         user == get_user(id)
         rec == add_permission_record(user, svc)
     IN IF user = NoUser
        THEN SetUserTask(t, UserDone(call, "NotFound"))
        ELSE IF Contains(user.service_ids, svc)
        THEN SetUserTask(t, UserDone([call EXCEPT !.loaded = user,
                                                  !.user = user], "Ok"))
        ELSE SetUserTask(t, [call EXCEPT !.pc = "persist", !.loaded = user,
                               !.user = rec.user, !.rotate = rec.rotate])
  /\ UNCHANGED <<users, issued, nextNonce, refreshed, svcVars, schVars, extVars>>

\* remove_service_permission, permissions.rs 26-35
RemoveServicePermission(t, id, svc) ==
  /\ UserCalled(t)
  /\ LET call == [IdleUserTask EXCEPT !.op = "remove_service_permission",
                    !.id = id, !.svc = svc]
         user == get_user(id)
         rec == remove_permission_record(user, svc)
     IN IF user = NoUser
        THEN SetUserTask(t, UserDone(call, "NotFound"))
        ELSE SetUserTask(t, [call EXCEPT !.pc = "persist", !.loaded = user,
                               !.user = rec.user, !.rotate = rec.rotate])
  /\ UNCHANGED <<users, issued, nextNonce, refreshed, svcVars, schVars, extVars>>

\* rotate_refresh_nonce (when the call rotates) and persist_user: the whole
\* record the task holds replaces the stored one
PersistUser(t) ==
  /\ utasks[t].pc = "persist"
  /\ LET user == IF utasks[t].rotate
                 THEN [utasks[t].user EXCEPT !.refresh_nonce = nextNonce]
                 ELSE utasks[t].user
     IN /\ users' = [users EXCEPT ![utasks[t].id] = user]
        /\ SetUserTask(t, UserDone([utasks[t] EXCEPT !.user = user], "Ok"))
  /\ nextNonce' = IF utasks[t].rotate THEN nextNonce + 1 ELSE nextNonce
  /\ UNCHANGED <<issued, refreshed, ucalls, svcVars, schVars, extVars>>

\* tokens a client can present: any signed token, or a forged one
Presentable == Signed \cup {ForgedToken}

NextUser ==
  \/ \E t \in UserTasks, pw \in Passwords, sids \in PermLists :
       CreateUser(t, "alice", pw, sids)
  \/ \E t \in UserTasks, n \in Usernames, pw \in Passwords : Login(t, n, pw)
  \/ \E t \in UserTasks, tok \in Presentable : Refresh(t, tok)
  \/ \E t \in UserTasks : RefreshLoad(t)
  \/ \E t \in UserTasks : IssueTokens(t)
  \/ \E t \in UserTasks, tok \in Presentable : VerifyToken(t, tok)
  \/ \E t \in UserTasks, id \in UserIds \cup {"__devtoken__"},
        pw \in {None} \cup {Some(p) : p \in Passwords},
        sids \in {None} \cup {Some(l) : l \in PermLists} :
       UpdateUser(t, id, pw, sids)
  \/ \E t \in UserTasks, id \in UserIds,
        cur \in {None} \cup {Some(p) : p \in Passwords},
        new \in Passwords, force \in BOOLEAN :
       ChangePassword(t, id, cur, new, force)
  \/ \E t \in UserTasks, id \in UserIds, svc \in Ids :
       AddServicePermission(t, id, svc)
  \/ \E t \in UserTasks, id \in UserIds, svc \in Ids :
       RemoveServicePermission(t, id, svc)
  \/ \E t \in UserTasks : PersistUser(t)

SpecUser == Init /\ [][NextUser]_vars

\* ------------------------------------------------------------------------
\* A store that already holds the account (the state create_user leaves):
\* sessions on it
\* ------------------------------------------------------------------------

StoredUser ==
  [password_hash |-> hash_password(PwOne), service_ids |-> <<>>,
   token_version |-> 0, refresh_nonce |-> 1]

InitSession ==
  /\ ServiceInit
  /\ SchedulerInit
  /\ ExtInit
  /\ users = [u \in UserIds |-> StoredUser]
  /\ issued = {}
  /\ nextNonce = 2
  /\ utasks = [t \in UserTasks |-> IdleUserTask]
  /\ refreshed = {}
  /\ ucalls = 0

NextSession ==
  \/ \E t \in UserTasks, n \in Usernames, pw \in Passwords : Login(t, n, pw)
  \/ \E t \in UserTasks, tok \in Presentable : Refresh(t, tok)
  \/ \E t \in UserTasks : RefreshLoad(t)
  \/ \E t \in UserTasks : IssueTokens(t)
  \/ \E t \in UserTasks, tok \in Presentable : VerifyToken(t, tok)
  \/ \E t \in UserTasks, id \in UserIds \cup {"__devtoken__"},
        pw \in {None} \cup {Some(p) : p \in Passwords},
        sids \in {None} \cup {Some(l) : l \in PermLists} :
       UpdateUser(t, id, pw, sids)
  \/ \E t \in UserTasks, id \in UserIds,
        cur \in {None} \cup {Some(p) : p \in Passwords},
        new \in Passwords, force \in BOOLEAN :
       ChangePassword(t, id, cur, new, force)
  \/ \E t \in UserTasks, id \in UserIds, svc \in Ids :
       AddServicePermission(t, id, svc)
  \/ \E t \in UserTasks, id \in UserIds, svc \in Ids :
       RemoveServicePermission(t, id, svc)
  \/ \E t \in UserTasks : PersistUser(t)

SpecSession == InitSession /\ [][NextSession]_vars

\* ------------------------------------------------------------------------
\* Properties of the user store and token engine
\* ------------------------------------------------------------------------

\* C4: a token issued at token_version v is rejected by verify_token with
\* Unauthorized in every state where the stored token_version of its user
\* is greater than v
C4_StaleTokenRejected ==
  \A tok \in issued :
    (get_user(tok.sub) # NoUser
       /\ get_user(tok.sub).token_version > tok.token_version)
      => verify_token(tok) = "Unauthorized"

\* verify_token has refused an access token that login issued before the
\* stored token_version moved past it
C4_Witness ==
  \E t \in UserTasks :
    /\ utasks[t].pc = "done"
    /\ utasks[t].op = "verify_token"
    /\ utasks[t].res = "Unauthorized"
    /\ utasks[t].tok \in issued
    /\ utasks[t].tok.token_type = "user"
    /\ get_user(utasks[t].tok.sub).token_version
         > utasks[t].tok.token_version

\* C5: a refresh call made with a token for which refresh has already
\* returned Ok is refused with Unauthorized
C5_RefreshSingleUse ==
  \A t \in UserTasks :
    (utasks[t].op = "refresh" /\ utasks[t].late)
      => (utasks[t].pc = "done" /\ utasks[t].res = "Unauthorized")

\* C6: no step lowers the stored token_version of a user
C6_VersionNeverDecreases ==
  [][\A u \in UserIds :
       users'[u].token_version >= users[u].token_version]_vars

\* C7 as stated: every successful update_user, change_password,
\* add_service_permission and remove_service_permission returns a record
\* whose token_version is one more than that of the record it loaded and
\* whose refresh_nonce is new, whatever the arguments
C7_AsStated ==
  \A t \in UserTasks :
    (/\ utasks[t].pc = "done"
     /\ utasks[t].res = "Ok"
     /\ utasks[t].op \in {"update_user", "change_password",
                          "add_service_permission",
                          "remove_service_permission"})
      => /\ utasks[t].user.token_version
              = utasks[t].loaded.token_version + 1
         /\ utasks[t].user.refresh_nonce # utasks[t].loaded.refresh_nonce

\* C7, amended: a successful change_password, remove_service_permission,
\* update_user with a password or service_ids, or add_service_permission
\* for a service the user does not hold returns a record whose
\* token_version is one more than that of the record it loaded and whose
\* refresh_nonce is fresh; update_user with neither field and
\* add_service_permission for a service already held leave both as loaded
C7_MutationsBumpVersion ==
  \A t \in UserTasks :
    (/\ utasks[t].pc = "done"
     /\ utasks[t].res = "Ok"
     /\ utasks[t].op \in {"update_user", "change_password",
                          "add_service_permission",
                          "remove_service_permission"})
      => LET call == utasks[t]
             unchanged ==
               IF call.op = "update_user"
               THEN call.password = None /\ call.sids = None
               ELSE IF call.op = "add_service_permission"
               THEN Contains(call.loaded.service_ids, call.svc)
               ELSE FALSE
         IN IF unchanged
            THEN /\ call.user.token_version = call.loaded.token_version
                 /\ call.user.refresh_nonce = call.loaded.refresh_nonce
            ELSE /\ call.user.token_version
                      = call.loaded.token_version + 1
                 /\ call.user.refresh_nonce > call.loaded.refresh_nonce
                 /\ \A tok \in issued :
                      tok.refresh_nonce # call.user.refresh_nonce

\* update_user with new service_ids has returned, and the record it wrote,
\* one version above the one it loaded, is the stored one
C7_Witness ==
  \E t \in UserTasks :
    /\ utasks[t].pc = "done"
    /\ utasks[t].res = "Ok"
    /\ utasks[t].op = "update_user"
    /\ utasks[t].sids # None
    /\ utasks[t].user.token_version = utasks[t].loaded.token_version + 1
    /\ users[utasks[t].id] = utasks[t].user

\* C26: login and refresh return an access token of type user with the
\* service_ids of the user and no nonce, and a refresh token of type
\* refresh with empty service_ids and the nonce rotated by this call; no
\* token the engine has issued is of type dev, and verify_token answers
\* Unauthorized to every signed token of type dev
C26_TokenPairShape ==
  [][/\ \A t \in UserTasks :
          (utasks[t].pc = "issue" /\ utasks'[t].pc = "done")
          => \E a \in issued', r \in issued' \ issued :
               /\ issued' \ issued \subseteq {a, r}
               /\ a.sub = utasks[t].id /\ r.sub = utasks[t].id
               /\ a.token_type = "user"
               /\ a.service_ids = users'[utasks[t].id].service_ids
               /\ a.service_ids = utasks[t].loaded.service_ids
               /\ a.refresh_nonce = 0
               /\ r.token_type = "refresh"
               /\ r.service_ids = <<>>
               /\ r.refresh_nonce = users'[utasks[t].id].refresh_nonce
               /\ r.refresh_nonce # utasks[t].loaded.refresh_nonce
               /\ \A old \in issued : old.refresh_nonce # r.refresh_nonce
     /\ \A tok \in issued' : tok.token_type # "dev"
     /\ \A t \in UserTasks :
          (/\ utasks'[t].pc = "done"
           /\ utasks'[t].op \in {"verify_token", "refresh"}
           /\ utasks'[t].tok \in Signed'
           /\ utasks'[t].tok.token_type = "dev")
          => utasks'[t].res = "Unauthorized"]_vars

\* a login has returned its pair while the middleware has refused a signed
\* token of type dev
C26_Witness ==
  /\ utasks["x"].pc = "done"
  /\ utasks["x"].op = "login"
  /\ utasks["x"].res = "Ok"
  /\ \E r \in issued :
       /\ r.token_type = "refresh"
       /\ r.refresh_nonce = utasks["x"].user.refresh_nonce
  /\ utasks["y"].pc = "done"
  /\ utasks["y"].op = "verify_token"
  /\ utasks["y"].tok = SignedDevToken
  /\ utasks["y"].res = "Unauthorized"

\* C27: every login that answers Unauthorized has run a password-hash
\* verification before answering, and the steps of a login refused for an
\* unknown username are those of a login refused for a wrong password
C27_LoginAlwaysVerifies ==
  \A t \in UserTasks :
    (/\ utasks[t].pc = "done"
     /\ utasks[t].op = "login"
     /\ utasks[t].res = "Unauthorized")
    => /\ Contains(utasks[t].steps, "verify_password")
       /\ utasks[t].steps = <<"find_by_username", "verify_password">>

\* C28: no two user files carry the same username; a create_user that
\* finds its username answers AlreadyExists and writes nothing; and once
\* no create_user is running, the index maps every username in use to the
\* id of the user that has it
C28_UsernamesUnique ==
  /\ \A u \in Uuids, v \in Uuids :
       (userFiles[u] # NoVal /\ userFiles[u] = userFiles[v]) => u = v
  /\ (\A t \in DirTasks : ctasks[t].pc \in {"idle", "done"})
     => \A u \in Uuids :
          userFiles[u] # NoVal => usernameIndex[userFiles[u]] = u

\* pcs whose step takes the registry mutex
LockPcs ==
  {"st_reg", "st_relock", "shut_flag", "shut_send", "kill_get", "kill_rm"}

\* C29: stop_all_services never waits for a registry mutex that will not be
\* released (so it returns, on an empty listing or when the wait is used
\* up); when its wait begins, stop has been called on every service the
\* first listing reported Running; and scheduler.shutdown, which leaves no
\* scheduler and no job, runs only after stop_all_services has returned
C29_StopAllReturns ==
  /\ (tasks[MainTask].op = "stop_all_services"
        /\ tasks[MainTask].pc \in LockPcs)
     => lockHolder = NoTask
  /\ (tasks[MainTask].op = "stop_all_services"
        /\ tasks[MainTask].phase = "wait")
     => tasks[MainTask].stopped = tasks[MainTask].reported
  /\ \A s \in SchedTasks :
       stasks[s].op = "shutdown"
       => /\ tasks[MainTask].pc = "done"
          /\ tasks[MainTask].op = "stop_all_services"
          /\ stasks[s].pc = "done"
             => (~scheduler /\ \A i \in Ids : jobs[i] = 0)

\* a kill, shutdown or stop of service id has returned Ok
StopReturnedOk(id) ==
  \E t \in ApiTasks :
    /\ tasks[t].pc = "done"
    /\ tasks[t].op \in {"kill", "shutdown", "stop"}
    /\ tasks[t].id = id
    /\ tasks[t].res \in {"Ok_Running", "Ok_Stopped"}

\* C30: the waiter of an instance does not go on to start(id) once a kill,
\* shutdown or stop of its service has returned Ok (stated for a service
\* that has had this one instance only, so that the call was about it)
C30_NoRestartAfterStop ==
  [][\A p \in Pids :
       (/\ tasks[Waiter(p)].pc = "w_flag"
        /\ tasks'[Waiter(p)].pc = "start_load"
        /\ p = 1
        /\ nextPid = 2)
       => ~StopReturnedOk(tasks[Waiter(p)].id)]_vars

\* C31: the waiter of an auto_restart instance that exited with
\* stop_requested false is never left waiting for a registry mutex that
\* will not be released (so it reaches its one start(id)); a waiter goes on
\* to start(id) only from its flag test, for a dead instance with
\* auto_restart and no stop request; and no other task but a caller's
\* enters start
C31_WaiterRestartsOnce ==
  [][/\ \A p \in Pids :
          (/\ tasks'[Waiter(p)].pc = "w_rmreg"
           /\ tasks'[Waiter(p)].m.auto_restart
           /\ p \notin stopReq')
          => lockHolder' = NoTask
     /\ \A t \in Tasks \ ApiTasks :
          (tasks[t].pc # "start_load" /\ tasks'[t].pc = "start_load")
          => \E p \in Pids :
               /\ t = Waiter(p)
               /\ tasks[t].pc = "w_flag"
               /\ tasks[t].m.auto_restart
               /\ p \notin stopReq
               /\ ~process_alive(p)]_vars

\* C32: after the exit of an instance its waiter removes the pidfile and,
\* in its next step, the registry entry, and it is never left waiting for
\* a registry mutex that will not be released (so the entry goes and
\* status can answer Stopped)
C32_WaiterCleansUp ==
  [][\A p \in Pids :
       LET w == Waiter(p)
           id == tasks[w].id IN
         /\ (tasks[w].pc = "w_wait" /\ tasks'[w].pc # "w_wait")
            => (~process_alive(p) /\ tasks'[w].pc = "w_rmpid")
         /\ (tasks[w].pc = "w_rmpid" /\ tasks'[w].pc # "w_rmpid")
            => (pidfile'[id] = 0 /\ tasks'[w].pc = "w_rmreg")
         /\ (tasks[w].pc = "w_rmreg" /\ tasks'[w].pc # "w_rmreg")
            => (runtime'[id] = 0 /\ tasks'[w].pc = "w_flag")
         /\ tasks'[w].pc \in {"w_rmpid", "w_rmreg"}
            => lockHolder' \notin Tasks \ {w}]_vars

\* the last n bytes of content
Suffix(content, n) == SubSeq(content, Len(content) - n + 1, Len(content))

\* C33: a truncation of the log file leaves the sentinel line followed by
\* a suffix of the previous content of at most LOG_RETAIN_SIZE bytes, and
\* a suffix that is not empty starts where a line of the previous content
\* starts
C33_TruncateLineAligned ==
  [][(Len(logBytes) > LOG_MAX_SIZE /\ Len(logBytes') < Len(logBytes))
     => \E n \in 0..LOG_RETAIN_SIZE :
          /\ logBytes' = Sentinel \o Suffix(logBytes, n)
          /\ \/ n = 0
             \/ logBytes[Len(logBytes) - n] = Newline]_vars

\* C34: no task waits for the registry mutex while it holds it itself: a
\* status call that found the entry of a dead pid has released the guard
\* of its lookup when it asks for the mutex again
C34_NoSelfDeadlock ==
  \A t \in Tasks : tasks[t].pc = "st_relock" => lockHolder # t

\* C35: the cleanup of an instance touches that instance only: the waiter
\* of pid p removes a pidfile or a registry entry only when it names p, and
\* a kill that looked up pid p removes a registry entry or a pidfile only
\* when it names p
C35_CleanupSparesLaterInstance ==
  [][/\ \A p \in Pids :
          LET w == Waiter(p)
              id == tasks[w].id IN
            (tasks[w].pc \in {"w_rmpid", "w_rmreg"} /\ tasks'[w] # tasks[w])
            => /\ runtime'[id] # runtime[id] => runtime[id] = p
               /\ pidfile'[id] # pidfile[id] => pidfile[id] = p
     /\ \A t \in Tasks :
          LET id == tasks[t].id IN
            (tasks[t].pc \in {"kill_rm", "kill_rmpid"} /\ tasks'[t] # tasks[t])
            => /\ runtime'[id] # runtime[id] => runtime[id] = tasks[t].pid
               /\ pidfile'[id] # pidfile[id] => pidfile[id] = tasks[t].pid
    ]_vars

\* the elements of a sequence
Range(seq) == {seq[i] : i \in 1..Len(seq)}

\* C36: once the session has sent its replay frame, every chunk the worker
\* has broadcast is either in that frame or was broadcast after the
\* session subscribed, so that the live stream holds it
C36_AttachLosesNoOutput ==
  session.pc = "live"
  => \A i \in 1..Len(sent) :
       i > session.since \/ sent[i] \in Range(session.replay)

\* C37: of two refresh calls that present the same refresh token, each
\* made before the other had rotated the nonce, at most one returns Ok
C37_OneConcurrentRefreshWins ==
  \A t1, t2 \in UserTasks :
    (/\ t1 # t2
     /\ utasks[t1].op = "refresh" /\ utasks[t2].op = "refresh"
     /\ utasks[t1].tok = utasks[t2].tok
     /\ ~utasks[t1].late /\ ~utasks[t2].late
     /\ utasks[t1].pc = "done" /\ utasks[t2].pc = "done")
    => ~(utasks[t1].res = "Ok" /\ utasks[t2].res = "Ok")

\* C38: the step of start(id) that finds the service Running, the manifest
\* against the policy or the working directory missing ends the call with
\* AlreadyRunning, PolicyViolation or SpawnFailed and leaves the log file,
\* the pidfile and the registry as they were
C38_FailedStartChangesNothing ==
  [][\A t \in Tasks :
       (/\ tasks[t].pc = "start_chk"
        /\ tasks'[t] # tasks[t]
        /\ \/ tasks[t].st = "Running"
           \/ enforce_policy(tasks[t].m) # "Ok"
           \/ /\ tasks[t].m.cwd # NoCwd
              /\ tasks[t].m.cwd \notin ExistingDirs)
       => /\ tasks'[t].res \in {"AlreadyRunning", "PolicyViolation",
                                "SpawnFailed"}
          /\ logBytes' = logBytes
          /\ pidfile' = pidfile
          /\ runtime' = runtime]_vars

\* C39 as stated: no step of an upsert_schedule(id, s) whose s is enabled
\* with a cron that does not parse, a call that ends with InvalidSchedule,
\* changes the job map or the timers of the scheduler
C39_AsStated ==
  [][\A t \in SchedTasks :
       (/\ stasks[t].op = "upsert_schedule"
        /\ stasks[t].pc \notin {"idle", "done"}
        /\ stasks'[t] # stasks[t]
        /\ ~skips(stasks[t].schedule)
        /\ validate_cron(stasks[t].schedule.cron) # "Ok")
       => /\ jobs' = jobs
          /\ timers' = timers]_vars

\* C39: with one caller, an upsert_schedule(id, s) that returns
\* InvalidSchedule has cancelled the task of id before it looked at s: when
\* it returns, id has no entry in the job map and no timer, and the step
\* that refuses the cron changes nothing in the scheduler
C39_FailedUpsertCancelsTask ==
  [][\A t \in SeqSchedTasks :
       (/\ stasks[t].op = "upsert_schedule"
        /\ stasks[t].pc = "up_check"
        /\ stasks'[t].res = "InvalidSchedule")
       => /\ stasks'[t].pc = "done"
          /\ jobs' = jobs
          /\ timers' = timers
          /\ scheduler' = scheduler
          /\ jobs'[stasks[t].id] = 0
          /\ \A j \in timers' : j.sid # stasks[t].id]_vars

\* a schedule was installed for the id and a later upsert_schedule of the
\* id has returned InvalidSchedule
C39_Witness ==
  \E t \in SeqSchedTasks :
    /\ stasks[t].op = "upsert_schedule"
    /\ stasks[t].pc = "done"
    /\ stasks[t].res = "InvalidSchedule"
    /\ lastUpsert[stasks[t].id].ok
    /\ lastUpsert[stasks[t].id].failed
    /\ jobs[stasks[t].id] = 0

\* no request and no scheduler call is under way
ApiQuiet ==
  /\ \A t \in ApiTasks : tasks[t].pc \in {"idle", "done"}
  /\ \A s \in SchedTasks : stasks[s].pc \in {"idle", "done"}

\* the stored manifest of id asks for a timer
StoredWanted(id) ==
  /\ manifests[id] # NoManifest
  /\ manifests[id].schedule # None
  /\ Wanted(manifests[id].schedule[1])

\* C40: between the requests create, update, update-schedule and delete,
\* the scheduler has a task for a service exactly when the service exists
\* and its stored manifest has an enabled schedule with a non-empty cron
\* that parses; a delete refused for a Running service is one such request
C40_TaskIffStoredSchedule ==
  ApiQuiet => \A id \in Ids : (jobs[id] # 0) <=> StoredWanted(id)

====
